---- MODULE Spec2Model ----
(***************************************************************************)
(* Model of the graph handlers of handlers/graph.go: the traffic map       *)
(* builder, the response-time appender, the namespace merger, the node     *)
(* classifier and the service-graph reducer.                               *)
(*                                                                         *)
(* Go pointers are modelled by a heap: `nodes` and `edges` are sequences   *)
(* of records and a *graph.Node / *graph.Edge is an index into them.  A    *)
(* graph.TrafficMap is a function from node id to node address.  float64   *)
(* counters are integers; a responseTime, which is a quotient, is an exact *)
(* rational [num, den] (floating-point rounding is not modelled).          *)
(*                                                                         *)
(* After the graph handlers come the node graph (GraphNode), the quantile  *)
(* of the response-time appender, util.StringSet, the cancellation of a    *)
(* request, DashboardsService.GetDashboard and getErrorTracesFromJaeger,   *)
(* each with a specification of its own.                                   *)
(***************************************************************************)
EXTENDS Integers, Sequences, FiniteSets, TLC

VARIABLES
    nodes,          \* heap of graph.Node
    edges,          \* heap of graph.Edge
    trafficMap,     \* buildNamespacesTrafficMap: trafficMap (the global map)
    nsTrafficMap,   \* buildNamespacesTrafficMap: namespaceTrafficMap
    curNs,          \* the namespace of the current loop iteration
    pending,        \* namespaces of o.Namespaces not yet iterated
    pc,             \* position in buildNamespacesTrafficMap
    o,              \* options.Options of the request
    tel,            \* the query vectors the request has consumed, by namespace
    mesh,           \* what the telemetry backend has series for
    hist,           \* the store before the last merge, mark or reduce step
    cancelled,      \* the context of the *http.Request is done
    rtAppender,     \* a ResponseTimeAppender and the quantile of its query
    averages,       \* metadata maps under averageMetadataValue / averageResponseTime
    stringSet,      \* util.StringSet: its argument and its result
    dashboard,      \* DashboardsService.GetDashboard: the loop and its goroutines
    jaeger          \* getErrorTracesFromJaeger: its inputs, position and result

vars == <<nodes, edges, trafficMap, nsTrafficMap, curNs, pending, pc, o, tel, mesh, hist, cancelled, rtAppender, averages, stringSet, dashboard, jaeger>>

\* The state of the graph handlers.
graphVars == <<nodes, edges, trafficMap, nsTrafficMap, curNs, pending, pc, o, tel, mesh, hist>>

\* The state outside the graph handlers, which no graph handler reads or writes.
others == <<cancelled, rtAppender, averages, stringSet, dashboard, jaeger>>

\* No call outside the graph handlers has been made.
Idle ==
    /\ cancelled = FALSE
    /\ rtAppender = "none"
    /\ averages = "none"
    /\ stringSet = "none"
    /\ dashboard = "none"
    /\ jaeger = "none"

-----------------------------------------------------------------------------
(* Bounds of the model *)

\* Samples in the traffic vectors (http and tcp) of one request, over all of
\* its namespaces.
MaxSamples == 2

\* Samples in the result vector of one response-time query.
MaxRtSamples == 1

-----------------------------------------------------------------------------
(* Constants of package graph *)

Unknown == "unknown"

NodeTypeUnknown == "unknown"

NodeTypeWorkload == "workload"

NodeTypeApp == "app"

NodeTypeVersionedApp == "versionedApp"

NodeTypeService == "service"

GraphTypeWorkload == "workload"

GraphTypeApp == "app"

GraphTypeVersionedApp == "versionedApp"

GraphTypeService == "service"

\* The nil interface value a map[string]interface{} yields for a missing key.
Nil == "nil"

-----------------------------------------------------------------------------
(* map[string]interface{} *)

EmptyMap == [k \in {} |-> Nil]

Has(md, k) == k \in DOMAIN md

Get(md, k) == IF k \in DOMAIN md THEN md[k] ELSE Nil

Put(md, k, v) == [x \in (DOMAIN md) \cup {k} |-> IF x = k THEN v ELSE md[x]]

\* Sum of f over the finite set S.
RECURSIVE SumOver(_, _)
SumOver(S, f) ==
    IF S = {} THEN 0
    ELSE LET x == CHOOSE y \in S : TRUE IN f[x] + SumOver(S \ {x}, f)

Range(s) == {s[i] : i \in 1..Len(s)}

-----------------------------------------------------------------------------
(* Exact rationals for float64 quotients *)

RECURSIVE Gcd(_, _)
Gcd(a, b) == IF b = 0 THEN a ELSE Gcd(b, a % b)

Rat(n, d) == LET g == Gcd(n, d) IN IF g = 0 THEN [num |-> 0, den |-> 1]
                                    ELSE [num |-> n \div g, den |-> d \div g]

RatOfInt(n) == [num |-> n, den |-> 1]

RatAdd(a, b) == Rat(a.num * b.den + b.num * a.den, a.den * b.den)

RatDivInt(a, n) == Rat(a.num, a.den * n)

-----------------------------------------------------------------------------
(* Package graph: identity resolver and node construction *)

IsOK(s) == s # "" /\ s # Unknown

Id(namespace, workload, app, version, service, graphType) ==
    IF namespace = Unknown
    THEN [id |-> Unknown, nodeType |-> NodeTypeUnknown]
    ELSE IF service # "" /\ workload = "" /\ app = "" /\ version = ""
    THEN [id |-> "svc_" \o namespace \o "_" \o service, nodeType |-> NodeTypeService]
    ELSE IF graphType \in {GraphTypeApp, GraphTypeVersionedApp}
    THEN IF version # "" /\ graphType = GraphTypeVersionedApp
         THEN [id |-> "vapp_" \o namespace \o "_" \o app \o "_" \o version,
               nodeType |-> NodeTypeVersionedApp]
         ELSE [id |-> "app_" \o namespace \o "_" \o app, nodeType |-> NodeTypeApp]
    ELSE [id |-> "wl_" \o namespace \o "_" \o workload, nodeType |-> NodeTypeWorkload]

NewNodeExplicit(id, namespace, workload, app, version, service, nodeType, graphType) ==
    [ID        |-> id,
     NodeType  |-> nodeType,
     Namespace |-> namespace,
     Workload  |-> IF nodeType \in {NodeTypeWorkload, NodeTypeVersionedApp} THEN workload ELSE "",
     App       |-> IF nodeType \in {NodeTypeWorkload, NodeTypeApp, NodeTypeVersionedApp}
                   THEN app ELSE "",
     Version   |-> IF nodeType \in {NodeTypeWorkload, NodeTypeVersionedApp} THEN version ELSE "",
     Service   |-> IF nodeType = NodeTypeService THEN service ELSE "",
     Edges     |-> << >>,
     Metadata  |-> EmptyMap]

NewEdge(source, dest) == [Source |-> source, Dest |-> dest, Metadata |-> EmptyMap]

NewTrafficMap == EmptyMap

-----------------------------------------------------------------------------
(* Heap updates.  A store S is [nodes, edges, tm]: the heap and the traffic *)
(* map a builder function works on.                                         *)

SetNode(S, n, rec) == [S EXCEPT !.nodes[n] = rec]

SetNodeMd(S, n, md) == [S EXCEPT !.nodes[n].Metadata = md]

SetEdgeMd(S, e, md) == [S EXCEPT !.edges[e].Metadata = md]

\* graph.Node.AddEdge: allocate an edge source -> dest and append it to
\* source.Edges; yields the store and the new edge.
AddEdge(S, source, dest) ==
    LET e == Len(S.edges) + 1
    IN  [S |-> [S EXCEPT !.edges = Append(S.edges, NewEdge(source, dest)),
                         !.nodes[source].Edges = Append(@, e)],
         edge |-> e]

-----------------------------------------------------------------------------
(* handlers/graph.go: metadata primitives *)

\* Mutant of addToMetadataValue: the value is stored, not added.
addToMetadataValue_Overwrite(md, k, v) == Put(md, k, v)

addToMetadataValue(md, k, v) ==
    IF Has(md, k) THEN Put(md, k, md[k] + v) ELSE Put(md, k, v)

\* Mutant of averageMetadataValue: the count restarts at every call.
averageMetadataValue_NoCount(md, k, v) == LET kTotal == k \o "_total" kCount == k \o "_count" total == IF Has(md, kTotal) THEN RatAdd(v, md[kTotal]) ELSE v IN Put(Put(Put(md, kTotal, total), kCount, 1), k, total)

averageMetadataValue(md, k, v) ==
    LET kTotal == k \o "_total"
        kCount == k \o "_count"
        total  == IF Has(md, kTotal) THEN RatAdd(v, md[kTotal]) ELSE v
        count  == IF Has(md, kCount) THEN 1 + md[kCount] ELSE 1
    IN  Put(Put(Put(md, kTotal, total), kCount, count), k, RatDivInt(total, count))

addToDestServices(md, destService) ==
    LET destServices == IF Has(md, "destServices") THEN md["destServices"] ELSE {}
    IN  Put(md, "destServices", destServices \cup {destService})

\* fmt.Sprintf("labels=%v", labels) for the label lists the handler builds.
FormatLabels(labels) ==
    IF labels = <<"app">> THEN "labels=[app]"
    ELSE IF labels = <<"version">> THEN "labels=[version]"
    ELSE "labels=[app version]"

\* Mutant of handleMisconfiguredLabels: the labels of the sample are taken
\* whatever its rate.
handleMisconfiguredLabels_AnyRate(S, node, app, version, rate, opts) ==
    IF /\ \/ S.nodes[node].NodeType = NodeTypeWorkload
          \/ S.nodes[node].NodeType = NodeTypeApp /\ opts.GraphType = GraphTypeVersionedApp
       /\ S.nodes[node].App # app \/ S.nodes[node].Version # version
    THEN SetNode(S, node,
                 [S.nodes[node] EXCEPT
                     !.Metadata = Put(@, "isMisconfigured",
                                      FormatLabels((IF S.nodes[node].App # app THEN <<"app">> ELSE << >>)
                                                   \o (IF S.nodes[node].Version # version
                                                       THEN <<"version">> ELSE << >>))),
                     !.App = app, !.Version = version])
    ELSE S

handleMisconfiguredLabels(S, node, app, version, rate, opts) ==
    LET n == S.nodes[node]
        isVersionedAppGraph == opts.GraphType = GraphTypeVersionedApp
        isWorkloadNode == n.NodeType = NodeTypeWorkload
        isVersionedAppNode == n.NodeType = NodeTypeApp /\ isVersionedAppGraph
        labels == (IF n.App # app THEN <<"app">> ELSE << >>)
                  \o (IF n.Version # version THEN <<"version">> ELSE << >>)
    IN  IF (isWorkloadNode \/ isVersionedAppNode) /\ Len(labels) > 0
        THEN LET marked == [n EXCEPT !.Metadata = Put(@, "isMisconfigured", FormatLabels(labels))]
             IN  SetNode(S, node,
                         IF rate > 0 THEN [marked EXCEPT !.App = app, !.Version = version]
                         ELSE marked)
        ELSE S

addNode(S, namespace, workload, app, version, service, opts) ==
    LET r == Id(namespace, workload, app, version, service, opts.GraphType)
    IN  IF Has(S.tm, r.id)
        THEN [S |-> S, node |-> S.tm[r.id], found |-> TRUE]
        ELSE LET a == Len(S.nodes) + 1
                 newNode == NewNodeExplicit(r.id, namespace, workload, app, version,
                                            service, r.nodeType, opts.GraphType)
             IN  [S |-> [S EXCEPT !.nodes = Append(S.nodes, newNode),
                                  !.tm = Put(S.tm, r.id, a)],
                  node |-> a, found |-> FALSE]

-----------------------------------------------------------------------------
(* handlers/graph.go: adding the traffic of one sample *)

\* The loop `for _, e := range source.Edges` of addHttpTraffic and
\* addTcpTraffic: the first edge of source whose dest has id destID and whose
\* metadata holds proto under key, or 0 (nil: no address is 0).
findEdge(S, source, destID, key, proto) ==
    LET es == S.nodes[source].Edges
        hits == {i \in 1..Len(es) :
                    /\ S.nodes[S.edges[es[i]].Dest].ID = destID
                    /\ Get(S.edges[es[i]].Metadata, key) = proto}
    IN  IF hits = {} THEN 0
        ELSE es[CHOOSE i \in hits : \A j \in hits : i <= j]

\* strings.HasPrefix(code, d) for a response code and a one-digit prefix.
HasPrefix(code, d) ==
    \/ d = "2" /\ code \in {"200"}
    \/ d = "3" /\ code \in {"302"}
    \/ d = "4" /\ code \in {"404"}
    \/ d = "5" /\ code \in {"500"}

\* The traffic functions work on a context c: the store S and the locals
\* source, sourceFound, dest, destFound and edge of the function.

\* source, sourceFound := addNode(...); dest, destFound := addNode(...)
addDest(r1, destSvcNs, destWl, destApp, destVer, destSvcName, opts) ==
    LET r2 == addNode(r1.S, destSvcNs, destWl, destApp, destVer, destSvcName, opts)
    IN  [S |-> r2.S, source |-> r1.node, sourceFound |-> r1.found,
         dest |-> r2.node, destFound |-> r2.found, edge |-> 0]

addNodes(S, sourceWlNs, sourceWl, sourceApp, sourceVer, sourceSvcName, destSvcNs, destWl, destApp, destVer, destSvcName, opts) ==
    addDest(addNode(S, sourceWlNs, sourceWl, sourceApp, sourceVer, sourceSvcName, opts),
            destSvcNs, destWl, destApp, destVer, destSvcName, opts)

\* addToDestServices(dest.Metadata, destSvcName)
withDestServices(c, destSvcName) ==
    [c EXCEPT !.S = SetNodeMd(c.S, c.dest,
                              addToDestServices(c.S.nodes[c.dest].Metadata, destSvcName))]

\* edge = source.AddEdge(dest); edge.Metadata["protocol"] = proto
withNewEdge(c, ae, proto) ==
    [c EXCEPT !.S = SetEdgeMd(ae.S, ae.edge, Put(ae.S.edges[ae.edge].Metadata, "protocol", proto)),
              !.edge = ae.edge]

\* The search for an edge of source to dest whose metadata holds proto under
\* key, and the creation of the edge when there is none.
withEdge(c, key, proto) ==
    LET found == findEdge(c.S, c.source, c.S.nodes[c.dest].ID, key, proto)
    IN  IF found = 0 THEN withNewEdge(c, AddEdge(c.S, c.source, c.dest), proto)
        ELSE [c EXCEPT !.edge = found]

withSourceLabels(c, sourceApp, sourceVer, val, opts) ==
    IF c.sourceFound
    THEN [c EXCEPT !.S = handleMisconfiguredLabels(c.S, c.source, sourceApp, sourceVer, val, opts)]
    ELSE c

withDestLabels(c, destApp, destVer, val, opts) ==
    IF c.destFound
    THEN [c EXCEPT !.S = handleMisconfiguredLabels(c.S, c.dest, destApp, destVer, val, opts)]
    ELSE c

\* addToMetadataValue(n.Metadata, k, v) for node n of the store
addToNode(S, n, k, v) == SetNodeMd(S, n, addToMetadataValue(S.nodes[n].Metadata, k, v))

\* addToMetadataValue(e.Metadata, k, v) for edge e of the store
addToEdge(S, e, k, v) == SetEdgeMd(S, e, addToMetadataValue(S.edges[e].Metadata, k, v))

\* The counters of source, dest and edge: out is "httpOut" or "tcpOut", and so on.
withCounters(c, out, in, proto, val) ==
    [c EXCEPT !.S = addToEdge(addToNode(addToNode(c.S, c.source, out, val), c.dest, in, val),
                              c.edge, proto, val)]

\* The switch on the response code class of addHttpTraffic.
withHttpCode(c, code, val) ==
    LET class == IF HasPrefix(code, "3") THEN "3xx"
                 ELSE IF HasPrefix(code, "4") THEN "4xx"
                 ELSE IF HasPrefix(code, "5") THEN "5xx" ELSE ""
    IN  IF class = "" THEN c
        ELSE [c EXCEPT !.S = addToEdge(addToNode(c.S, c.dest, "httpIn" \o class, val),
                                       c.edge, "http" \o class, val)]

addHttpTraffic(S, val, code, sourceWlNs, sourceWl, sourceApp, sourceVer, sourceSvcName, destSvcNs, destWl, destApp, destVer, destSvcName, opts) ==
    withHttpCode(
      withCounters(
        withDestLabels(
          withSourceLabels(
            withEdge(
              withDestServices(
                addNodes(S, sourceWlNs, sourceWl, sourceApp, sourceVer, sourceSvcName,
                         destSvcNs, destWl, destApp, destVer, destSvcName, opts),
                destSvcName),
              "protocol", "http"),
            sourceApp, sourceVer, val, opts),
          destApp, destVer, val, opts),
        "httpOut", "httpIn", "http", val),
      code, val).S

addTcpTraffic(S, val, sourceWlNs, sourceWl, sourceApp, sourceVer, sourceSvcName, destSvcNs, destWl, destApp, destVer, destSvcName, opts) ==
    withCounters(
      withDestLabels(
        withSourceLabels(
          withEdge(
            withDestServices(
              addNodes(S, sourceWlNs, sourceWl, sourceApp, sourceVer, sourceSvcName,
                       destSvcNs, destWl, destApp, destVer, destSvcName, opts),
              destSvcName),
            "procotol", "tcp"),
          sourceApp, sourceVer, val, opts),
        destApp, destVer, val, opts),
      "tcpOut", "tcpIn", "tcp", val).S

-----------------------------------------------------------------------------
(* handlers/graph.go: one iteration of the loops over a query vector.  A    *)
(* sample s is [Metric, Value]; Metric maps label names to label values.    *)

HttpLabels == {"namespace", "deployment", "dst_namespace", "dst_service", "dst_deployment"}

\* Mutant of populateTrafficMapHttp: a sample that lacks a label ends the
\* build with an empty map.
populateTrafficMapHttp_Abort(S, s, opts) ==
    IF ~(HttpLabels \subseteq DOMAIN s.Metric) THEN [S EXCEPT !.tm = NewTrafficMap]
    ELSE IF opts.InjectServiceNodes
    THEN addHttpTraffic(
             addHttpTraffic(S, s.Value, "200", s.Metric["namespace"], s.Metric["deployment"],
                            "Unknown", "Unknown", "", s.Metric["dst_namespace"], "", "", "",
                            s.Metric["dst_service"], opts),
             s.Value, "200", s.Metric["dst_namespace"], "", "", "", s.Metric["dst_service"],
             s.Metric["dst_namespace"], s.Metric["dst_deployment"], "Unknown", "Unknown",
             s.Metric["dst_service"], opts)
    ELSE addHttpTraffic(S, s.Value, "200", s.Metric["namespace"], s.Metric["deployment"],
                        "Unknown", "Unknown", "", s.Metric["dst_namespace"],
                        s.Metric["dst_deployment"], "Unknown", "Unknown",
                        s.Metric["dst_service"], opts)

\* The body of the loop of populateTrafficMapHttp for sample s.
populateTrafficMapHttp(S, s, opts) ==
    LET m == s.Metric
    IN  IF ~(HttpLabels \subseteq DOMAIN m) THEN S
        ELSE
        LET sourceWlNs == m["namespace"]
            sourceWl == m["deployment"]
            sourceApp == "Unknown"
            sourceVer == "Unknown"
            destSvcNs == m["dst_namespace"]
            destSvcName == m["dst_service"]
            destWl == m["dst_deployment"]
            destApp == "Unknown"
            destVer == "Unknown"
            code == "200"
            val == s.Value
            destSvcNameOk == "dst_service" \in DOMAIN m
            destNodeType == Id(destSvcNs, destWl, destApp, destVer, destSvcName,
                               opts.GraphType).nodeType
        IN  IF opts.InjectServiceNodes /\ destSvcNameOk /\ destNodeType # NodeTypeService
            THEN addHttpTraffic(
                     addHttpTraffic(S, val, code, sourceWlNs, sourceWl, sourceApp, sourceVer, "",
                                    destSvcNs, "", "", "", destSvcName, opts),
                     val, code, destSvcNs, "", "", "", destSvcName,
                     destSvcNs, destWl, destApp, destVer, destSvcName, opts)
            ELSE addHttpTraffic(S, val, code, sourceWlNs, sourceWl, sourceApp, sourceVer, "",
                                destSvcNs, destWl, destApp, destVer, destSvcName, opts)

TcpLabels == {"source_workload_namespace", "source_workload", "source_app", "source_version",
              "destination_service_name", "destination_workload", "destination_app",
              "destination_version"}

\* The body of the loop of populateTrafficMapTcp for sample s.
populateTrafficMapTcp(S, s, opts) ==
    LET m == s.Metric
        destSvcNsOk == "destination_service_namespace" \in DOMAIN m
                       \/ "destination_workload_namespace" \in DOMAIN m
    IN  IF ~(TcpLabels \subseteq DOMAIN m /\ destSvcNsOk) THEN S
        ELSE
        LET sourceWlNs == m["source_workload_namespace"]
            sourceWl == m["source_workload"]
            sourceApp == m["source_app"]
            sourceVer == m["source_version"]
            destSvcNs == IF "destination_service_namespace" \in DOMAIN m
                         THEN m["destination_service_namespace"]
                         ELSE m["destination_workload_namespace"]
            destSvcName == m["destination_service_name"]
            destWl == m["destination_workload"]
            destApp == m["destination_app"]
            destVer == m["destination_version"]
            val == s.Value
            destSvcNameOk == IsOK(destSvcName)
            destNodeType == Id(destSvcNs, destWl, destApp, destVer, destSvcName,
                               opts.GraphType).nodeType
        IN  IF opts.InjectServiceNodes /\ destSvcNameOk /\ destNodeType # NodeTypeService
            THEN addTcpTraffic(
                     addTcpTraffic(S, val, sourceWlNs, sourceWl, sourceApp, sourceVer, "",
                                   destSvcNs, "", "", "", destSvcName, opts),
                     val, destSvcNs, "", "", "", destSvcName,
                     destSvcNs, destWl, destApp, destVer, destSvcName, opts)
            ELSE addTcpTraffic(S, val, sourceWlNs, sourceWl, sourceApp, sourceVer, "",
                               destSvcNs, destWl, destApp, destVer, destSvcName, opts)

-----------------------------------------------------------------------------
(* graph/appender/response_time.go *)

\* fmt.Sprintf("%s %s", sourceId, destId)
RtKey(sourceId, destId) == sourceId \o " " \o destId

averageResponseTime(responseTimeMap, key, val) ==
    LET keyTotal == key \o "_total"
        keyCount == key \o "_count"
        total == IF Has(responseTimeMap, keyTotal)
                 THEN RatAdd(val, responseTimeMap[keyTotal]) ELSE val
        count == IF Has(responseTimeMap, keyCount)
                 THEN RatAdd(RatOfInt(1), responseTimeMap[keyCount]) ELSE RatOfInt(1)
    IN  Put(Put(Put(responseTimeMap, keyTotal, total), keyCount, count),
            key, Rat(total.num * count.den, total.den * count.num))

addResponseTime(responseTimeMap, val, sourceWlNs, sourceWl, sourceApp, sourceVer, sourceSvcName, destSvcNs, destWl, destApp, destVer, destSvcName, graphType) ==
    LET sourceId == Id(sourceWlNs, sourceWl, sourceApp, sourceVer, sourceSvcName, graphType).id
        destId == Id(destSvcNs, destWl, destApp, destVer, destSvcName, graphType).id
    IN  averageResponseTime(responseTimeMap, RtKey(sourceId, destId), val)

\* The body of the loop of populateResponseTimeMap for sample s of appender a
\* (a NaN value is not in the sample sets of the model).
populateResponseTimeMap(responseTimeMap, s, a) ==
    LET m == s.Metric
    IN  IF ~(HttpLabels \subseteq DOMAIN m) THEN responseTimeMap
        ELSE
        LET sourceWlNs == m["namespace"]
            sourceWl == m["deployment"]
            sourceApp == "Unknown"
            sourceVer == "Unknown"
            destSvcNs == m["dst_namespace"]
            destSvcName == m["dst_service"]
            destWl == m["dst_deployment"]
            destApp == "Unknown"
            destVer == "Unknown"
            val == RatOfInt(s.Value * 1000)
            destSvcNameOk == "dst_service" \in DOMAIN m
            destNodeType == Id(destSvcNs, destWl, destApp, destVer, destSvcName,
                               a.GraphType).nodeType
        IN  IF a.InjectServiceNodes /\ destSvcNameOk /\ destNodeType # NodeTypeService
            THEN addResponseTime(
                     addResponseTime(responseTimeMap, val, sourceWlNs, sourceWl, sourceApp,
                                     sourceVer, "", destSvcNs, "", "", "", destSvcName,
                                     a.GraphType),
                     val, destSvcNs, "", "", "", destSvcName,
                     destSvcNs, destWl, destApp, destVer, destSvcName, a.GraphType)
            ELSE addResponseTime(responseTimeMap, val, sourceWlNs, sourceWl, sourceApp,
                                 sourceVer, "", destSvcNs, destWl, destApp, destVer,
                                 destSvcName, a.GraphType)

RECURSIVE populateResponseTimeMapAll(_, _, _, _)
populateResponseTimeMapAll(responseTimeMap, vector, i, a) ==
    IF i > Len(vector) THEN responseTimeMap
    ELSE populateResponseTimeMapAll(populateResponseTimeMap(responseTimeMap, vector[i], a),
                                    vector, i + 1, a)

\* A Go map[string]float64 yields 0 for a missing key.
RtLookup(responseTimeMap, key) ==
    IF Has(responseTimeMap, key) THEN responseTimeMap[key] ELSE RatOfInt(0)

\* Every edge in the edge list of a node stored in tm gets its responseTime
\* from the map.  The edges are written one by one; the writes do not depend
\* on each other, so the iteration order of the Go map does not show.
applyResponseTime(S, responseTimeMap) ==
    LET targets == UNION {Range(S.nodes[S.tm[id]].Edges) : id \in DOMAIN S.tm}
    IN  [S EXCEPT !.edges =
            [e \in DOMAIN S.edges |->
                IF e \in targets
                THEN [S.edges[e] EXCEPT !.Metadata =
                         Put(@, "responseTime",
                             RtLookup(responseTimeMap,
                                      RtKey(S.nodes[S.edges[e].Source].ID,
                                            S.nodes[S.edges[e].Dest].ID)))]
                ELSE S.edges[e]]]

\* ResponseTimeAppender.AppendGraph on the store S with the result vector of
\* its query (IncludeIstio is off: one query).
AppendGraph(S, vector, a) ==
    IF DOMAIN S.tm = {} THEN S
    ELSE applyResponseTime(S, populateResponseTimeMapAll(EmptyMap, vector, 1, a))

-----------------------------------------------------------------------------
(* handlers/graph.go: mergeTrafficMaps.  Here a store M is [nodes, edges,   *)
(* tm] with tm the global map.                                              *)

\* The elements of a finite set in a fixed order.
RECURSIVE SeqOf(_)
SeqOf(S) == IF S = {} THEN << >>
            ELSE LET x == CHOOSE y \in S : TRUE IN <<x>> \o SeqOf(S \ {x})

\* Mutant of isDupEdge: no edge is taken for a duplicate.
isDupEdge_Never(M, node, nsEdge) == FALSE

\* The innermost loop of mergeTrafficMaps: does node hold an edge with the
\* dest id and the protocol of nsEdge?
isDupEdge(M, node, nsEdge) ==
    \E j \in 1..Len(M.nodes[node].Edges) :
        LET e == M.nodes[node].Edges[j]
        IN  /\ M.nodes[M.edges[nsEdge].Dest].ID = M.nodes[M.edges[e].Dest].ID
            /\ Get(M.edges[nsEdge].Metadata, "protocol") = Get(M.edges[e].Metadata, "protocol")

\* The loop over nsNode.Edges of mergeTrafficMaps: nsEdges is the slice the
\* range statement evaluated, i the position in it.
RECURSIVE mergeEdges(_, _, _, _)
mergeEdges(M, node, nsEdges, i) ==
    IF i > Len(nsEdges) THEN M
    ELSE mergeEdges(IF isDupEdge(M, node, nsEdges[i]) THEN M
                    ELSE [M EXCEPT !.nodes[node].Edges = Append(@, nsEdges[i])],
                    node, nsEdges, i + 1)

\* Mutant of mergeNode: the instance already in the global map is kept.
mergeNode_KeepGlobal(M, ns, nsId, nsNode) ==
    IF Has(M.tm, nsId)
    THEN mergeEdges(M, M.tm[nsId], M.nodes[nsNode].Edges, 1)
    ELSE [M EXCEPT !.tm = Put(M.tm, nsId, nsNode)]

\* Mutant of mergeNode: the edges of the losing instance are dropped.
mergeNode_NoEdges(M, ns, nsId, nsNode) ==
    IF Has(M.tm, nsId) /\ M.nodes[nsNode].Namespace # ns THEN M
    ELSE [M EXCEPT !.tm = Put(M.tm, nsId, nsNode)]

\* The body of the outer loop of mergeTrafficMaps for one entry of nsTrafficMap.
mergeNode(M, ns, nsId, nsNode) ==
    IF Has(M.tm, nsId)
    THEN LET node == M.tm[nsId]
         IN  IF M.nodes[nsNode].Namespace = ns
             THEN mergeEdges([M EXCEPT !.tm = Put(M.tm, nsId, nsNode)],
                             nsNode, M.nodes[node].Edges, 1)
             ELSE mergeEdges(M, node, M.nodes[nsNode].Edges, 1)
    ELSE [M EXCEPT !.tm = Put(M.tm, nsId, nsNode)]

RECURSIVE mergeNodes(_, _, _, _, _)
mergeNodes(M, ns, nsTm, ids, i) ==
    IF i > Len(ids) THEN M
    ELSE mergeNodes(mergeNode(M, ns, ids[i], nsTm[ids[i]]), ns, nsTm, ids, i + 1)

\* The iterations of the outer loop touch disjoint map entries and node
\* instances (the entry and the two instances of their own id), so the order
\* in which Go ranges over nsTrafficMap does not show in the result: the
\* entries are taken in a fixed order.
mergeTrafficMaps(M, ns, nsTm) == mergeNodes(M, ns, nsTm, SeqOf(DOMAIN nsTm), 1)

-----------------------------------------------------------------------------
(* handlers/graph.go: the node classifier *)

isOutside(n, namespaces) ==
    IF n.Namespace = Unknown THEN FALSE
    ELSE ~(\E ns \in namespaces : n.Namespace = ns)

\* Mutant of isInaccessible: every namespace is taken for accessible.
isInaccessible_Never(n, accessibleNamespaces) == FALSE

isInaccessible(n, accessibleNamespaces) == n.Namespace \notin accessibleNamespaces

\* The body of the loop of markOutsideOrInaccessible for node record n.
markNode(n, opts) ==
    LET md1 == IF n.NodeType = NodeTypeUnknown THEN Put(n.Metadata, "isInaccessible", TRUE)
               ELSE IF n.NodeType = NodeTypeService /\ Has(n.Metadata, "isServiceEntry")
               THEN Put(n.Metadata, "isInaccessible", TRUE)
               ELSE IF isOutside(n, opts.Namespaces) THEN Put(n.Metadata, "isOutside", TRUE)
               ELSE n.Metadata
        md2 == IF /\ Has(md1, "isOutside") /\ md1["isOutside"]
                  /\ ~Has(md1, "isInaccessible")
                  /\ isInaccessible(n, opts.AccessibleNamespaces)
               THEN Put(md1, "isInaccessible", TRUE)
               ELSE md1
    IN  [n EXCEPT !.Metadata = md2]

\* Each node stored in tm is marked on its own.
markOutsideOrInaccessible(M, opts) ==
    LET stored == {M.tm[id] : id \in DOMAIN M.tm}
    IN  [M EXCEPT !.nodes = [a \in DOMAIN M.nodes |->
                                IF a \in stored THEN markNode(M.nodes[a], opts)
                                ELSE M.nodes[a]]]

\* The key set of destMap: the ids of the dests of the edges of the stored nodes.
destMap(M) ==
    {M.nodes[M.edges[e].Dest].ID :
        e \in UNION {Range(M.nodes[M.tm[id]].Edges) : id \in DOMAIN M.tm}}

\* Mutant of isTrafficGenerator: the node is not looked up in destMap.
isTrafficGenerator_NoDestCheck(n, dests) == Len(n.Edges) # 0

\* The condition under which the second loop of markTrafficGenerators marks n.
isTrafficGenerator(n, dests) == Len(n.Edges) # 0 /\ n.ID \notin dests

markTrafficGenerators(M) ==
    LET stored == {M.tm[id] : id \in DOMAIN M.tm}
        dests == destMap(M)
    IN  [M EXCEPT !.nodes = [a \in DOMAIN M.nodes |->
                                IF a \in stored /\ isTrafficGenerator(M.nodes[a], dests)
                                THEN [M.nodes[a] EXCEPT !.Metadata = Put(@, "isRoot", TRUE)]
                                ELSE M.nodes[a]]]

-----------------------------------------------------------------------------
(* handlers/graph.go: reduceToServiceGraph.  A reduction state R is a store *)
(* [nodes, edges, tm] with two more fields: reduced, the map being built,   *)
(* and err, set when graph.Error panics.                                    *)

\* Mutant of checkNodeType: every node type is accepted.
checkNodeType_Any(expected, n) == TRUE

\* checkNodeType does not panic.
checkNodeType(expected, n) == expected = n.NodeType

\* One counter of addServiceGraphTraffic: target[k] += source[k] when the
\* source edge holds k.
addCounter(R, target, source, k) ==
    IF Has(R.edges[source].Metadata, k)
    THEN SetEdgeMd(R, target,
                   addToMetadataValue(R.edges[target].Metadata, k, R.edges[source].Metadata[k]))
    ELSE R

addServiceGraphTraffic(R, target, source) ==
    LET protocol == Get(R.edges[target].Metadata, "protocol")
        R1 == IF protocol = "http"
              THEN IF ~Has(R.edges[source].Metadata, "http") THEN [R EXCEPT !.err = TRUE]
                   ELSE addCounter(addCounter(addCounter(addCounter(R, target, source, "http"),
                                                         target, source, "http3xx"),
                                              target, source, "http4xx"),
                                   target, source, "http5xx")
              ELSE IF protocol = "tcp"
              THEN IF ~Has(R.edges[source].Metadata, "tcp") THEN [R EXCEPT !.err = TRUE]
                   ELSE addCounter(R, target, source, "tcp")
              ELSE [R EXCEPT !.err = TRUE]
    IN  IF R1.err THEN R1
        ELSE IF Has(R1.edges[source].Metadata, "responseTime")
        THEN SetEdgeMd(R1, target,
                       averageMetadataValue(R1.edges[target].Metadata, "responseTime",
                                            R1.edges[source].Metadata["responseTime"]))
        ELSE R1

\* The loop `for _, e := range n.Edges` of reduceToServiceGraph: the first
\* edge of n with the dest id and the protocol of serviceEdge, or 0 (nil).
findSameEdge(R, n, serviceEdge) ==
    LET es == R.nodes[n].Edges
        hits == {i \in 1..Len(es) :
                    /\ R.nodes[R.edges[serviceEdge].Dest].ID = R.nodes[R.edges[es[i]].Dest].ID
                    /\ Get(R.edges[serviceEdge].Metadata, "protocol")
                           = Get(R.edges[es[i]].Metadata, "protocol")}
    IN  IF hits = {} THEN 0
        ELSE es[CHOOSE i \in hits : \A j \in hits : i <= j]

\* The loop over workload.Edges for service node n.
RECURSIVE reduceServiceEdges(_, _, _, _)
reduceServiceEdges(R, n, serviceEdges, i) ==
    IF R.err \/ i > Len(serviceEdges) THEN R
    ELSE LET serviceEdge == serviceEdges[i]
             childService == R.edges[serviceEdge].Dest
         IN  IF ~checkNodeType(NodeTypeService, R.nodes[childService])
             THEN [R EXCEPT !.err = TRUE]
             ELSE LET edge == findSameEdge(R, n, serviceEdge)
                      R1 == IF edge = 0
                            THEN [R EXCEPT !.nodes[n].Edges = Append(@, serviceEdge)]
                            ELSE addServiceGraphTraffic(R, edge, serviceEdge)
                  IN  reduceServiceEdges(R1, n, serviceEdges, i + 1)

\* The loop over workloadEdges for service node n.
RECURSIVE reduceWorkloadEdges(_, _, _, _)
reduceWorkloadEdges(R, n, workloadEdges, i) ==
    IF R.err \/ i > Len(workloadEdges) THEN R
    ELSE LET workload == R.edges[workloadEdges[i]].Dest
         IN  IF ~checkNodeType(NodeTypeWorkload, R.nodes[workload])
             THEN [R EXCEPT !.err = TRUE]
             ELSE reduceWorkloadEdges(
                      reduceServiceEdges(R, n, R.nodes[workload].Edges, 1),
                      n, workloadEdges, i + 1)

\* Mutant of reduceNode: a node that is no Service node is kept, root or not.
reduceNode_KeepAll(R, id) ==
    LET n == R.tm[id]
    IN  IF R.nodes[n].NodeType # NodeTypeService
        THEN [R EXCEPT !.reduced = Put(R.reduced, id, n)]
        ELSE reduceWorkloadEdges([R EXCEPT !.reduced = Put(R.reduced, id, n),
                                           !.nodes[n].Edges = << >>],
                                 n, R.nodes[n].Edges, 1)

\* The body of the outer loop of reduceToServiceGraph for the entry id.
reduceNode(R, id) ==
    LET n == R.tm[id]
    IN  IF R.nodes[n].NodeType # NodeTypeService
        THEN IF Has(R.nodes[n].Metadata, "isRoot") /\ R.nodes[n].Metadata["isRoot"]
             THEN [R EXCEPT !.reduced = Put(R.reduced, id, n)]
             ELSE R
        ELSE reduceWorkloadEdges([R EXCEPT !.reduced = Put(R.reduced, id, n),
                                           !.nodes[n].Edges = << >>],
                                 n, R.nodes[n].Edges, 1)

RECURSIVE reduceNodes(_, _, _)
reduceNodes(R, order, i) ==
    IF R.err \/ i > Len(order) THEN R
    ELSE reduceNodes(reduceNode(R, order[i]), order, i + 1)

\* reduceToServiceGraph(M.tm) when Go ranges over the map in the given order
\* of its ids.
reduceToServiceGraph(M, order) ==
    reduceNodes([nodes |-> M.nodes, edges |-> M.edges, tm |-> M.tm,
                 reduced |-> NewTrafficMap, err |-> FALSE], order, 1)

-----------------------------------------------------------------------------
(* The telemetry backend.  `mesh` says what is deployed: the workloads and  *)
(* the services that carry http and tcp traffic, each a [ns, name].  A      *)
(* query returns samples of the series its label filter selects; the        *)
(* destination workload of a series backs its destination service.          *)

SampleValues == {1, 2}

MeshNamespaces == {w.ns : w \in mesh.Workloads}

\* The (service, workload) destinations of the series to the services svcs.
Destinations(svcs) ==
    {<<svc, dw>> \in svcs \X mesh.Workloads : svc.ns = dw.ns}

\* sum(rate(request_total{namespace="ns"})) by (namespace, deployment,
\* dst_namespace, dst_service, dst_deployment)
HttpSamples(ns) ==
    {[Metric |-> [namespace |-> ns, deployment |-> w.name, dst_namespace |-> d[1].ns,
                  dst_service |-> d[1].name, dst_deployment |-> d[2].name],
      Value |-> v] :
        w \in {x \in mesh.Workloads : x.ns = ns}, d \in Destinations(mesh.HttpServices),
        v \in SampleValues}

\* The three tcp queries of buildNamespaceTrafficMap: source_workload is
\* "unknown" and the destination workload namespace is ns; the source is a
\* known workload outside ns and the destination service namespace is ns; the
\* source workload namespace is ns.
TcpSamples(kind, ns) ==
    IF kind = "tcpUnk"
    THEN {[Metric |-> [source_workload_namespace |-> Unknown, source_workload |-> Unknown,
                       source_app |-> Unknown, source_version |-> Unknown,
                       destination_workload_namespace |-> ns,
                       destination_service_name |-> d[1].name,
                       destination_workload |-> d[2].name,
                       destination_app |-> "app", destination_version |-> "v1"],
           Value |-> v] :
            d \in {x \in Destinations(mesh.TcpServices) : x[1].ns = ns}, v \in SampleValues}
    ELSE {[Metric |-> [source_workload_namespace |-> w.ns, source_workload |-> w.name,
                       source_app |-> "app", source_version |-> "v1",
                       destination_service_namespace |-> d[1].ns,
                       destination_service_name |-> d[1].name,
                       destination_workload |-> d[2].name,
                       destination_app |-> "app", destination_version |-> "v1"],
           Value |-> v] :
            w \in {x \in mesh.Workloads : IF kind = "tcpExt" THEN x.ns # ns ELSE x.ns = ns},
            d \in {x \in Destinations(mesh.TcpServices) : kind = "tcpExt" => x[1].ns = ns},
            v \in SampleValues}

\* The (app, version) labels the pods of a workload can carry: pods of one
\* workload whose labels were changed, or are set inconsistently, report
\* series with different app and version labels.
LabelPairs == {<<"app", "v1">>, <<"app", "v2">>, <<"app2", "v2">>}

\* The rates of the series of a workload with several label sets: the series
\* of the pods that were replaced are still returned, with rate 0.
Rates == {0, 1}

\* The label set m without the label l: the backend returns no label whose
\* value is empty.
Drop(m, l) == [k \in (DOMAIN m) \ {l} |-> m[k]]

\* The samples of U with one of the labels ls missing.
Partial(U, ls) == {[Metric |-> Drop(s.Metric, l), Value |-> s.Value] : s \in U, l \in ls}

\* The http vector for ns, with the series that lack a label.
AnyHttpSamples(ns) ==
    HttpSamples(ns) \cup Partial(HttpSamples(ns), {"deployment", "dst_service"})

\* The tcp vectors for ns when the workloads carry the labels of LabelPairs.
LabelledTcpSamples(kind, ns) ==
    IF kind = "tcpUnk"
    THEN {[Metric |-> [source_workload_namespace |-> Unknown, source_workload |-> Unknown,
                       source_app |-> Unknown, source_version |-> Unknown,
                       destination_workload_namespace |-> ns,
                       destination_service_name |-> d[1].name,
                       destination_workload |-> d[2].name,
                       destination_app |-> dl[1], destination_version |-> dl[2]],
           Value |-> v] :
            d \in {x \in Destinations(mesh.TcpServices) : x[1].ns = ns},
            dl \in LabelPairs, v \in Rates}
    ELSE {[Metric |-> [source_workload_namespace |-> w.ns, source_workload |-> w.name,
                       source_app |-> l[1][1], source_version |-> l[1][2],
                       destination_service_namespace |-> d[1].ns,
                       destination_service_name |-> d[1].name,
                       destination_workload |-> d[2].name,
                       destination_app |-> l[2][1], destination_version |-> l[2][2]],
           Value |-> v] :
            w \in {x \in mesh.Workloads : IF kind = "tcpExt" THEN x.ns # ns ELSE x.ns = ns},
            d \in {x \in Destinations(mesh.TcpServices) : kind = "tcpExt" => x[1].ns = ns},
            l \in LabelPairs \X LabelPairs, v \in Rates}

\* The tcp series from the workloads of ns to a service without workload: a
\* vector can hold empty destination workload, app and version labels.
ServiceTcpSamples(ns) ==
    {[Metric |-> [source_workload_namespace |-> w.ns, source_workload |-> w.name,
                  source_app |-> "app", source_version |-> "v1",
                  destination_service_namespace |-> svc.ns,
                  destination_service_name |-> svc.name,
                  destination_workload |-> "",
                  destination_app |-> "", destination_version |-> ""],
      Value |-> 1] :
        w \in {x \in mesh.Workloads : x.ns = ns}, svc \in mesh.TcpServices}

\* The tcp series between the workloads of ns whose destination service is
\* not known to the mesh: the telemetry names it "unknown".
NoServiceTcpSamples(ns) ==
    {[Metric |-> [source_workload_namespace |-> w.ns, source_workload |-> w.name,
                  source_app |-> "app", source_version |-> "v1",
                  destination_service_namespace |-> dw.ns,
                  destination_service_name |-> Unknown,
                  destination_workload |-> dw.name,
                  destination_app |-> "app", destination_version |-> "v1"],
      Value |-> 1] :
        w \in {x \in mesh.Workloads : x.ns = ns}, dw \in {x \in mesh.Workloads : x.ns = ns}}

\* The tcp vector kind for ns, with the series that lack a label.
AnyTcpSamples(kind, ns) ==
    LabelledTcpSamples(kind, ns)
    \cup (IF kind = "tcpIn" THEN ServiceTcpSamples(ns) \cup NoServiceTcpSamples(ns) ELSE {})
    \cup Partial(TcpSamples(kind, ns),
                 {"source_app", "destination_service_name",
                  IF kind = "tcpUnk" THEN "destination_workload_namespace"
                  ELSE "destination_service_namespace"})

\* The sets of at most k samples of U with distinct label sets.
RECURSIVE SampleSets(_, _)
SampleSets(U, k) ==
    IF k = 0 THEN {{}}
    ELSE LET smaller == SampleSets(U, k - 1)
         IN  smaller \cup UNION {{V \cup {s} : s \in {t \in U : \A u \in V : u.Metric # t.Metric}} :
                                    V \in smaller}

\* The result vectors of the response-time query for ns: at most MaxRtSamples
\* samples with distinct label sets, values in seconds.  The latency histogram
\* has a series only where the request counter has one: for the label sets of
\* the http vector the builder got.
RtVectors(ns) ==
    LET U == {[Metric |-> tel[ns].http[i].Metric, Value |-> v] :
                 i \in 1..Len(tel[ns].http), v \in SampleValues}
    IN  {SeqOf(V) : V \in SampleSets(U, MaxRtSamples)}

-----
(* The request: buildNamespacesTrafficMap *)

GraphTypes == {GraphTypeWorkload, GraphTypeApp, GraphTypeVersionedApp, GraphTypeService}

ResponseTimeAppenderName == "responseTime"

\* The order of the query vectors in buildNamespaceTrafficMap.
Vectors == <<"http", "tcpUnk", "tcpExt", "tcpIn">>

VectorIndex(kind) == CHOOSE i \in 1..Len(Vectors) : Vectors[i] = kind

BuildPhases == Range(Vectors)

NoVectors == [http |-> << >>, tcpUnk |-> << >>, tcpExt |-> << >>, tcpIn |-> << >>, rt |-> << >>, err |-> FALSE]

\* Traffic samples consumed so far.
NumSamples ==
    SumOver(DOMAIN tel, [ns \in DOMAIN tel |->
        Len(tel[ns].http) + Len(tel[ns].tcpUnk) + Len(tel[ns].tcpExt) + Len(tel[ns].tcpIn)])

NsStore == [nodes |-> nodes, edges |-> edges, tm |-> nsTrafficMap]

GlobalStore == [nodes |-> nodes, edges |-> edges, tm |-> trafficMap]

NoStore == [nodes |-> << >>, edges |-> << >>, tm |-> NewTrafficMap]

\* The state at the entry of buildNamespacesTrafficMap for options opts and
\* a telemetry backend m.
Start(opts, m) ==
    /\ nodes = << >>
    /\ edges = << >>
    /\ trafficMap = NewTrafficMap
    /\ nsTrafficMap = NewTrafficMap
    /\ curNs = ""
    /\ o = opts
    /\ mesh = m
    /\ pending = opts.Namespaces
    /\ pc = "loop"
    /\ tel = EmptyMap
    /\ hist = NoStore
    /\ Idle

\* [ns, name]
At(ns, name) == [ns |-> ns, name |-> name]

\* Requests for two namespaces of a mesh of three, without appenders.
Init ==
    \E opts \in [GraphType : {GraphTypeWorkload, GraphTypeService},
                 InjectServiceNodes : BOOLEAN,
                 Namespaces : {{"ns1", "ns2"}},
                 AccessibleNamespaces : {{"ns1", "ns2"}},
                 Appenders : {<< >>}] :
        Start(opts, [Workloads |-> {At("ns1", "a"), At("ns2", "b"), At("ns3", "d")},
                     HttpServices |-> {At("ns2", "x"), At("ns3", "z")},
                     TcpServices |-> {At("ns2", "x")}])

\* Requests for the one namespace of a mesh, of every graph type.
InitBuild ==
    \E opts \in [GraphType : GraphTypes,
                 InjectServiceNodes : BOOLEAN,
                 Namespaces : {{"ns1"}},
                 AccessibleNamespaces : {{"ns1"}},
                 Appenders : {<< >>}] :
        Start(opts, [Workloads |-> {At("ns1", "a"), At("ns1", "b")},
                     HttpServices |-> {At("ns1", "x"), At("ns1", "y")},
                     TcpServices |-> {At("ns1", "x")}])

\* Requests for the service graph of the one namespace of a mesh, with the
\* response-time appender.
InitReduce ==
    \E opts \in [GraphType : {GraphTypeService},
                 InjectServiceNodes : BOOLEAN,
                 Namespaces : {{"ns1"}},
                 AccessibleNamespaces : {{"ns1"}},
                 Appenders : {<<ResponseTimeAppenderName>>}] :
        Start(opts, [Workloads |-> {At("ns1", "a"), At("ns1", "b")},
                     HttpServices |-> {At("ns1", "x"), At("ns1", "y")},
                     TcpServices |-> {At("ns1", "x")}])

\* `for _, namespace := range o.Namespaces`: Go ranges over the map in any order.
StartNamespace ==
    /\ pc = "loop"
    /\ \E ns \in pending :
        /\ curNs' = ns
        /\ pending' = pending \ {ns}
        /\ tel' = Put(tel, ns, NoVectors)
    /\ nsTrafficMap' = NewTrafficMap
    /\ pc' = "http"
    /\ UNCHANGED <<nodes, edges, trafficMap, o, mesh, others, hist>>

\* One sample s of the query vector kind of buildNamespaceTrafficMap is
\* populated, S being the namespace map with s added.  The vectors come in
\* the order of Vectors; a vector holds a label set once.
Populate(kind, s, S) ==
    /\ pc \in BuildPhases
    /\ VectorIndex(pc) <= VectorIndex(kind)
    /\ NumSamples < MaxSamples
    /\ \A i \in 1..Len(tel[curNs][kind]) : tel[curNs][kind][i].Metric # s.Metric
    /\ tel' = [tel EXCEPT ![curNs][kind] = Append(@, s)]
    /\ nodes' = S.nodes
    /\ edges' = S.edges
    /\ nsTrafficMap' = S.tm
    /\ pc' = kind
    /\ UNCHANGED <<trafficMap, curNs, pending, o, mesh, others, hist>>

PopulateHttp ==
    \E s \in HttpSamples(curNs) :
        Populate("http", s, populateTrafficMapHttp(NsStore, s, o))

PopulateTcp ==
    \E kind \in {"tcpUnk", "tcpExt", "tcpIn"} : \E s \in TcpSamples(kind, curNs) :
        Populate(kind, s, populateTrafficMapTcp(NsStore, s, o))

\* A sample of the http vector, well-formed or not.
PopulateAnyHttp ==
    \E s \in AnyHttpSamples(curNs) :
        Populate("http", s, populateTrafficMapHttp(NsStore, s, o))

\* A sample of a tcp vector, well-formed or not, of workloads that carry any
\* labels.
PopulateAnyTcp ==
    \E kind \in {"tcpUnk", "tcpExt", "tcpIn"} : \E s \in AnyTcpSamples(kind, curNs) :
        Populate(kind, s, populateTrafficMapTcp(NsStore, s, o))

\* The loop over o.Appenders.
RunAppenders ==
    /\ pc \in BuildPhases
    /\ IF o.Appenders = << >> \/ DOMAIN nsTrafficMap = {}
       THEN UNCHANGED <<nodes, edges, tel>>
       ELSE \E vector \in RtVectors(curNs) :
                LET S == AppendGraph(NsStore, vector,
                                     [GraphType |-> o.GraphType,
                                      InjectServiceNodes |-> o.InjectServiceNodes])
                IN  /\ nodes' = S.nodes
                    /\ edges' = S.edges
                    /\ tel' = [tel EXCEPT ![curNs].rt = vector]
    /\ pc' = "appended"
    /\ UNCHANGED <<trafficMap, nsTrafficMap, curNs, pending, o, mesh, others, hist>>

Merge ==
    /\ pc = "appended"
    /\ LET M == mergeTrafficMaps(GlobalStore, curNs, nsTrafficMap)
       IN  /\ nodes' = M.nodes
           /\ edges' = M.edges
           /\ trafficMap' = M.tm
    /\ hist' = GlobalStore
    /\ pc' = "loop"
    /\ UNCHANGED <<nsTrafficMap, curNs, pending, o, tel, mesh, others>>

MarkOutside_Early ==
    /\ pc = "loop"
    /\ nodes' = markOutsideOrInaccessible(GlobalStore, o).nodes
    /\ hist' = GlobalStore
    /\ pc' = "marked"
    /\ UNCHANGED <<edges, trafficMap, nsTrafficMap, curNs, pending, o, tel, mesh, others>>

MarkOutside ==
    /\ pc = "loop"
    /\ pending = {}
    /\ nodes' = markOutsideOrInaccessible(GlobalStore, o).nodes
    /\ hist' = GlobalStore
    /\ pc' = "marked"
    /\ UNCHANGED <<edges, trafficMap, nsTrafficMap, curNs, pending, o, tel, mesh, others>>

MarkGenerators ==
    /\ pc = "marked"
    /\ nodes' = markTrafficGenerators(GlobalStore).nodes
    /\ hist' = GlobalStore
    /\ pc' = IF o.GraphType = GraphTypeService THEN "reduce" ELSE "done"
    /\ UNCHANGED <<edges, trafficMap, nsTrafficMap, curNs, pending, o, tel, mesh, others>>

\* The orders in which Go can range over tm, as far as they show: a node that
\* is no Service node is only copied to the reduced map, so only the order of
\* the Service nodes is left open.
ReduceOrders(M) ==
    LET svc == {id \in DOMAIN M.tm : M.nodes[M.tm[id]].NodeType = NodeTypeService}
        rest == SeqOf(DOMAIN M.tm \ svc)
        n == Cardinality(svc)
    IN  {p \o rest : p \in {q \in [1..n -> svc] : \A i, j \in 1..n : q[i] = q[j] => i = j}}

Reduce ==
    /\ pc = "reduce"
    /\ \E order \in ReduceOrders(GlobalStore) :
        LET R == reduceToServiceGraph(GlobalStore, order)
        IN  IF R.err
            THEN /\ pc' = "panic"
                 /\ UNCHANGED <<nodes, edges, trafficMap>>
            ELSE /\ pc' = "done"
                 /\ nodes' = R.nodes
                 /\ edges' = R.edges
                 /\ trafficMap' = R.reduced
    /\ hist' = GlobalStore
    /\ UNCHANGED <<nsTrafficMap, curNs, pending, o, tel, mesh, others>>

\* promQuery: one of the queries of buildNamespaceTrafficMap returns an error
\* or a value that is no vector; graph.CheckError / graph.Error panic.  (The
\* http query precedes the http samples, the three tcp queries precede the tcp
\* samples: no query is left once a tcp vector is being populated.)
QueryFails_Continue ==
    /\ pc = "http"
    /\ tel' = [tel EXCEPT ![curNs].err = TRUE]
    /\ UNCHANGED <<nodes, edges, trafficMap, nsTrafficMap, curNs, pending, pc, o, mesh, others, hist>>

QueryFails ==
    /\ pc = "http"
    /\ tel' = [tel EXCEPT ![curNs].err = TRUE]
    /\ pc' = "panic"
    /\ UNCHANGED <<nodes, edges, trafficMap, nsTrafficMap, curNs, pending, o, mesh, others, hist>>

\* graphNamespaces: buildNamespacesTrafficMap has returned; generateGraph
\* writes the graph with status 200.
GenerateGraph ==
    /\ pc = "done"
    /\ pc' = "responded"
    /\ UNCHANGED <<nodes, edges, trafficMap, nsTrafficMap, curNs, pending, o, tel, mesh, others, hist>>

\* The deferred handlePanic of GraphNamespaces recovers the panic and writes
\* an error response.
HandlePanic ==
    /\ pc = "panic"
    /\ pc' = "error"
    /\ UNCHANGED <<nodes, edges, trafficMap, nsTrafficMap, curNs, pending, o, tel, mesh, others, hist>>

Next ==
    \/ StartNamespace
    \/ PopulateHttp
    \/ PopulateTcp
    \/ RunAppenders
    \/ Merge
    \/ MarkOutside
    \/ MarkGenerators
    \/ Reduce

Spec == Init /\ [][Next]_vars

SpecBuild == InitBuild /\ [][Next]_vars

SpecReduce == InitReduce /\ [][Next]_vars

\* Requests for the two namespaces of a mesh, with the response-time appender,
\* up to the response.
InitRequest ==
    \E opts \in [GraphType : {GraphTypeWorkload, GraphTypeService},
                 InjectServiceNodes : BOOLEAN,
                 Namespaces : {{"ns1", "ns2"}},
                 AccessibleNamespaces : {{"ns1", "ns2"}},
                 Appenders : {<<ResponseTimeAppenderName>>}] :
        Start(opts, [Workloads |-> {At("ns1", "a"), At("ns2", "b")},
                     HttpServices |-> {At("ns2", "x")},
                     TcpServices |-> {At("ns2", "x")}])

\* GraphNamespaces
NextRequest ==
    \/ StartNamespace
    \/ PopulateHttp
    \/ PopulateTcp
    \/ QueryFails
    \/ RunAppenders
    \/ Merge
    \/ MarkOutside
    \/ MarkGenerators
    \/ Reduce
    \/ GenerateGraph
    \/ HandlePanic

SpecRequest == InitRequest /\ [][NextRequest]_vars

\* The builder for the one namespace of a mesh whose series can lack labels,
\* carry any app and version labels and name the destination service "unknown".
InitSamples ==
    \E opts \in [GraphType : {GraphTypeWorkload, GraphTypeVersionedApp},
                 InjectServiceNodes : BOOLEAN,
                 Namespaces : {{"ns1"}},
                 AccessibleNamespaces : {{"ns1"}},
                 Appenders : {<< >>}] :
        Start(opts, [Workloads |-> {At("ns1", "a")},
                     HttpServices |-> {At("ns1", "x"), At("ns1", Unknown)},
                     TcpServices |-> {At("ns1", "x")}])

\* buildNamespaceTrafficMap
NextSamples ==
    \/ StartNamespace
    \/ PopulateAnyHttp
    \/ PopulateAnyTcp

SpecSamples == InitSamples /\ [][NextSamples]_vars

-----------------------------------------------------------------------------
(* Observations on a store *)

\* The nodes stored in the map of S.
Stored(S) == {S.tm[id] : id \in DOMAIN S.tm}

\* The edges in the edge lists of the nodes stored in the map of S.
StoredEdges(S) == UNION {Range(S.nodes[n].Edges) : n \in Stored(S)}

\* The (dest id, protocol) of edge e.
EdgeKey(S, e) == <<S.nodes[S.edges[e].Dest].ID, Get(S.edges[e].Metadata, "protocol")>>

\* No node stored in S has two edges with the same (dest id, protocol).
NoDupEdges(S) ==
    \A n \in Stored(S) :
        \A i, j \in 1..Len(S.nodes[n].Edges) :
            EdgeKey(S, S.nodes[n].Edges[i]) = EdgeKey(S, S.nodes[n].Edges[j]) => i = j

\* Counter k of metadata md, 0 when it is not set.
Counter(md, k) == IF Has(md, k) THEN md[k] ELSE 0

NodeSum(S, k) == SumOver(Stored(S), [n \in Stored(S) |-> Counter(S.nodes[n].Metadata, k)])

EdgeSum(S, k) ==
    SumOver(StoredEdges(S), [e \in StoredEdges(S) |-> Counter(S.edges[e].Metadata, k)])

\* The builder is at work on, or has finished, the map of the current namespace.
Building == pc \in BuildPhases \cup {"appended"}

-----------------------------------------------------------------------------
(* The builder *)

\* C1: in the map the builder is making, every node has at most one outgoing
\* edge per (dest id, protocol), for http and for tcp samples.
C1_OneEdgePerDestProtocol == Building => NoDupEdges(NsStore)

\* C2: in the map the builder is making, the sum of httpOut over the nodes,
\* the sum of httpIn over the nodes and the sum of http over the edges are equal.
C2_HttpConservation ==
    Building => /\ NodeSum(NsStore, "httpOut") = NodeSum(NsStore, "httpIn")
                /\ NodeSum(NsStore, "httpIn") = EdgeSum(NsStore, "http")

\* C2 witness: with service nodes injected, an edge has accumulated the
\* values 1 and 2 of two samples, and the map holds another http edge.
C2_Witness ==
    /\ Building
    /\ o.InjectServiceNodes
    /\ \E e1, e2 \in StoredEdges(NsStore) :
        /\ e1 # e2
        /\ Counter(edges[e1].Metadata, "http") = 3
        /\ Counter(edges[e2].Metadata, "http") > 0

-----------------------------------------------------------------------------
(* The node classifier *)

\* markTrafficGenerators has just run: hist is the store it ran on.
AfterMarkGenerators ==
    \/ pc = "reduce"
    \/ pc = "done" /\ o.GraphType # GraphTypeService

\* The ids that are the dest id of an edge of the graph S.
DestIds(S) == {S.nodes[S.edges[e].Dest].ID : e \in StoredEdges(S)}

\* md without key k.
Without(md, k) == [x \in (DOMAIN md) \ {k} |-> md[x]]

-----------------------------------------------------------------------------
(* The reducer *)

\* reduceToServiceGraph has just returned: hist is the graph it was given and
\* trafficMap is the reduced graph.
AfterReduce == pc = "done" /\ o.GraphType = GraphTypeService

\* The Service nodes of the graph given to the reducer.
ServiceNodes == {n \in Stored(hist) : hist.nodes[n].NodeType = NodeTypeService}

\* The intermediate nodes of Service node s: the dests of its edges.
Intermediates(s) == {hist.edges[e].Dest : e \in Range(hist.nodes[s].Edges)}

\* The edges W -> c of protocol p of the intermediate nodes W of s.
ViaEdges(s, c, p) ==
    {e \in UNION {Range(hist.nodes[w].Edges) : w \in Intermediates(s)} :
        EdgeKey(hist, e) = <<c, p>>}

\* The positions of the s -> c edges of protocol p in the reduced graph.
ReducedEdges(s, c, p) ==
    {i \in 1..Len(nodes[s].Edges) : EdgeKey(GlobalStore, nodes[s].Edges[i]) = <<c, p>>}

ProtocolCounters(p) == IF p = "http" THEN {"http", "http3xx", "http4xx", "http5xx"} ELSE {"tcp"}

\* C3: for a Service node s, child Service c and protocol p with an
\* intermediate node between them, the reduced graph holds exactly one s -> c
\* edge of protocol p and each counter of it is the sum of that counter over
\* the W -> c edges of the distinct intermediate nodes W of s.
C3_ReducedCounters ==
    AfterReduce =>
        \A s \in ServiceNodes : \A c \in {hist.nodes[n].ID : n \in ServiceNodes} :
            \A p \in {"http", "tcp"} :
                LET via == ViaEdges(s, c, p)
                    out == ReducedEdges(s, c, p)
                IN  via # {} =>
                        /\ Cardinality(out) = 1
                        /\ \A i \in out : \A k \in ProtocolCounters(p) :
                               Counter(edges[nodes[s].Edges[i]].Metadata, k)
                                   = SumOver(via, [e \in via |-> Counter(hist.edges[e].Metadata, k)])

\* The sum of the responseTime values of the edges es of the given graph.
RECURSIVE ResponseTimeSum(_)
ResponseTimeSum(es) ==
    IF es = {} THEN RatOfInt(0)
    ELSE LET e == CHOOSE x \in es : TRUE
         IN  RatAdd(hist.edges[e].Metadata["responseTime"], ResponseTimeSum(es \ {e}))

\* C4: when the reducer collapses n >= 2 intermediate edges that hold a
\* responseTime from the appender into one edge, the responseTime of that edge
\* is the sum of theirs divided by n.
C4_ReducedResponseTime ==
    AfterReduce =>
        \A s \in ServiceNodes : \A c \in {hist.nodes[n].ID : n \in ServiceNodes} :
            \A p \in {"http", "tcp"} :
                LET via == ViaEdges(s, c, p)
                IN  (/\ Cardinality(via) >= 2
                     /\ \A e \in via : Has(hist.edges[e].Metadata, "responseTime"))
                    => \A i \in ReducedEdges(s, c, p) :
                           Get(edges[nodes[s].Edges[i]].Metadata, "responseTime")
                               = RatDivInt(ResponseTimeSum(via), Cardinality(via))

-----------------------------------------------------------------------------
(* The merger *)

\* mergeTrafficMaps has just merged nsTrafficMap, the map of curNs, into the
\* global map: hist is the store it ran on.
AfterMerge == pc = "loop" /\ curNs # ""

\* The namespace map as it was given to the last merge.
NsStoreBefore == [nodes |-> hist.nodes, edges |-> hist.edges, tm |-> nsTrafficMap]

\* The ids the last merge found in both maps.
DupIds == DOMAIN hist.tm \cap DOMAIN nsTrafficMap

\* The (dest id, protocol) pairs of the edges of node n of S.
EdgeKeys(S, n) == {EdgeKey(S, e) : e \in Range(S.nodes[n].Edges)}

\* C6: merging the namespace map a second time under the same namespace name
\* leaves the global map, its node instances, their edge lists and all
\* metadata as they were after the first merge.
C6_MergeIdempotent ==
    AfterMerge => mergeTrafficMaps(GlobalStore, curNs, nsTrafficMap) = GlobalStore

\* C6 witness: the first merge met a node in both maps, in two instances, and
\* left the survivor with edges.
C6_Witness ==
    /\ AfterMerge
    /\ \E id \in DupIds :
        /\ hist.tm[id] # nsTrafficMap[id]
        /\ Len(nodes[trafficMap[id]].Edges) >= 1
        /\ Len(hist.nodes[nsTrafficMap[id]].Edges) >= 1

\* C7: if no node of the global map and no node of the namespace map had two
\* edges with the same (dest id, protocol) before the merge, no node of the
\* global map has two after it, and the survivor of a node that was in both
\* maps has every (dest id, protocol) either instance had.
C7_MergeNoDupEdges ==
    (AfterMerge /\ NoDupEdges(hist) /\ NoDupEdges(NsStoreBefore))
    => /\ NoDupEdges(GlobalStore)
       /\ \A id \in DupIds :
              EdgeKeys(hist, hist.tm[id]) \cup EdgeKeys(hist, nsTrafficMap[id])
                  \subseteq EdgeKeys(GlobalStore, trafficMap[id])

\* C7 witness: the two instances of a node had an edge with the same
\* (dest id, protocol), and one of them an edge the other had not.
C7_Witness ==
    /\ AfterMerge /\ NoDupEdges(hist) /\ NoDupEdges(NsStoreBefore)
    /\ \E id \in DupIds :
        /\ hist.tm[id] # nsTrafficMap[id]
        /\ EdgeKeys(hist, hist.tm[id]) \cap EdgeKeys(hist, nsTrafficMap[id]) # {}
    /\ \E id \in DupIds :
        /\ hist.tm[id] # nsTrafficMap[id]
        /\ EdgeKeys(hist, hist.tm[id]) # EdgeKeys(hist, nsTrafficMap[id])

\* C8: after mergeTrafficMaps(global, ns, nsMap) the global map stores, for an
\* id that was in both maps, the nsMap instance if the node's namespace is ns
\* and else the instance it stored before; for an id that was only in nsMap,
\* the nsMap instance.
C8_MergeSurvivor ==
    AfterMerge =>
        \A id \in DOMAIN nsTrafficMap :
            /\ id \in DOMAIN trafficMap
            /\ trafficMap[id] =
                   IF id \in DOMAIN hist.tm
                   THEN IF hist.nodes[nsTrafficMap[id]].Namespace = curNs
                        THEN nsTrafficMap[id]
                        ELSE hist.tm[id]
                   ELSE nsTrafficMap[id]

\* C8 witness: the merge met a node of the merged namespace and a node of
\* another namespace in both maps, each in two instances.
C8_Witness ==
    /\ AfterMerge
    /\ \E id1, id2 \in DupIds :
        /\ hist.tm[id1] # nsTrafficMap[id1]
        /\ hist.tm[id2] # nsTrafficMap[id2]
        /\ nodes[nsTrafficMap[id1]].Namespace = curNs
        /\ nodes[nsTrafficMap[id2]].Namespace # curNs

\* C9: after the merges, every edge e in the edge list of a node n stored in
\* the global map has e.Source = n, and the global map stores e.Dest under
\* e.Dest.ID.
C9_EdgesReferToStoredNodes ==
    AfterMerge =>
        \A n \in Stored(GlobalStore) : \A e \in Range(nodes[n].Edges) :
            /\ edges[e].Source = n
            /\ nodes[edges[e].Dest].ID \in DOMAIN trafficMap
            /\ trafficMap[nodes[edges[e].Dest].ID] = edges[e].Dest

-----------------------------------------------------------------------------
(* The namespace loop as a function of the telemetry, for comparing the     *)
(* orders in which Go can range over o.Namespaces                           *)

\* The loop `for _, s := range *vector` of a populate function on S.
RECURSIVE populateAll(_, _, _, _, _)
populateAll(S, kind, vector, i, opts) ==
    IF i > Len(vector) THEN S
    ELSE populateAll(IF kind = "http" THEN populateTrafficMapHttp(S, vector[i], opts)
                     ELSE populateTrafficMapTcp(S, vector[i], opts),
                     kind, vector, i + 1, opts)

\* buildNamespaceTrafficMap on the heap of M when the queries return vectors.
buildNamespaceTrafficMap(M, vectors, opts) ==
    populateAll(
        populateAll(
            populateAll(
                populateAll([nodes |-> M.nodes, edges |-> M.edges, tm |-> NewTrafficMap],
                            "http", vectors.http, 1, opts),
                "tcpUnk", vectors.tcpUnk, 1, opts),
            "tcpExt", vectors.tcpExt, 1, opts),
        "tcpIn", vectors.tcpIn, 1, opts)

\* The loop over o.Appenders on the namespace map N.
appendAll(N, vectors, opts) ==
    IF opts.Appenders = << >> THEN N
    ELSE AppendGraph(N, vectors.rt, [GraphType |-> opts.GraphType,
                                     InjectServiceNodes |-> opts.InjectServiceNodes])

\* One iteration of the namespace loop of buildNamespacesTrafficMap.
buildAndMerge(M, ns, vectors, opts) ==
    LET N == appendAll(buildNamespaceTrafficMap(M, vectors, opts), vectors, opts)
    IN  mergeTrafficMaps([nodes |-> N.nodes, edges |-> N.edges, tm |-> M.tm], ns, N.tm)

\* The namespace loop of buildNamespacesTrafficMap when Go ranges over
\* o.Namespaces in the given order and the queries for ns return telemetry[ns].
RECURSIVE buildNamespacesTrafficMap(_, _, _, _, _)
buildNamespacesTrafficMap(M, order, i, telemetry, opts) ==
    IF i > Len(order) THEN M
    ELSE buildNamespacesTrafficMap(buildAndMerge(M, order[i], telemetry[order[i]], opts),
                                   order, i + 1, telemetry, opts)

\* The orders in which Go can range over the namespaces nss.
NamespaceOrders(nss) ==
    LET n == Cardinality(nss)
    IN  {q \in [1..n -> nss] : \A i, j \in 1..n : q[i] = q[j] => i = j}

\* The content of the graph S: per node id the fields and the metadata of
\* the stored node and its set of (dest id, protocol) edges with their metadata.
Content(S) ==
    [id \in DOMAIN S.tm |->
        LET n == S.nodes[S.tm[id]]
        IN  [NodeType |-> n.NodeType, Namespace |-> n.Namespace, Workload |-> n.Workload,
             App |-> n.App, Version |-> n.Version, Service |-> n.Service,
             Metadata |-> n.Metadata,
             Edges |-> {<<EdgeKey(S, e), S.edges[e].Metadata>> : e \in Range(n.Edges)}]]

\* Every requested namespace has been built and merged.
AllMerged == pc = "loop" /\ pending = {} /\ curNs # ""

\* C5: the content of the merged graph is the same for every order in which
\* the maps of the requested namespaces are built and merged.
C5_MergeOrderIndependent ==
    AllMerged =>
        \A order \in NamespaceOrders(o.Namespaces) :
            Content(buildNamespacesTrafficMap(NoStore, order, 1, tel, o)) = Content(GlobalStore)

-----------------------------------------------------------------------------
(* The classifier and the reducer on the graphs an appender can hand over:  *)
(* a Service node may carry isServiceEntry, an edge any protocol.           *)

EdgeProtocols == {"http", "tcp", "grpc"}

\* The nodes of the graphs: the Service s and the workloads w1 and w2 of ns1,
\* the Service c of cns, the workload x of xns and the unknown node.
GraphNodes(cns, xns) ==
    <<[ns |-> "ns1", wl |-> "", svc |-> "s"], [ns |-> "ns1", wl |-> "w1", svc |-> ""],
      [ns |-> "ns1", wl |-> "w2", svc |-> ""], [ns |-> cns, wl |-> "", svc |-> "c"],
      [ns |-> xns, wl |-> "x", svc |-> ""], [ns |-> Unknown, wl |-> Unknown, svc |-> ""]>>

\* addNode for the first i nodes of ns.
RECURSIVE withNodes(_, _, _, _)
withNodes(S, ns, i, opts) ==
    IF i = 0 THEN S
    ELSE addNode(withNodes(S, ns, i - 1, opts),
                 ns[i].ns, ns[i].wl, IF ns[i].wl = "" THEN "" ELSE "app",
                 IF ns[i].wl = "" THEN "" ELSE "v1", ns[i].svc, opts).S

\* source.AddEdge(dest) with the protocol and the counter of the protocol set.
withTraffic(S, source, dest, protocol, val) ==
    LET ae == AddEdge(S, source, dest)
        md == Put(ae.S.edges[ae.edge].Metadata, "protocol", protocol)
    IN  SetEdgeMd(ae.S, ae.edge,
                  IF protocol \in {"http", "tcp"} THEN Put(md, protocol, val) ELSE md)

\* The edges es[1..i], each [source, dest, protocol, val], added to S.
RECURSIVE withEdges(_, _, _)
withEdges(S, es, i) ==
    IF i = 0 THEN S
    ELSE withTraffic(withEdges(S, es, i - 1), es[i].source, es[i].dest, es[i].protocol, es[i].val)

\* The edges of a graph: unknown -> s, s -> w1, s -> w2, w1 -> c, w2 -> c,
\* and the edges a graph without service injection can hold, s -> c (a
\* service without workload) and w1 -> x; all but the first as present says.
GraphEdges(present, p1, p2) ==
    LET all == <<[source |-> 1, dest |-> 2, protocol |-> "http", val |-> 1],
                 [source |-> 1, dest |-> 3, protocol |-> "http", val |-> 2],
                 [source |-> 2, dest |-> 4, protocol |-> p1, val |-> 1],
                 [source |-> 3, dest |-> 4, protocol |-> p2, val |-> 2],
                 [source |-> 1, dest |-> 4, protocol |-> "tcp", val |-> 1],
                 [source |-> 2, dest |-> 5, protocol |-> "tcp", val |-> 1]>>
        pick == SeqOf(present)
    IN  <<[source |-> 6, dest |-> 1, protocol |-> "http", val |-> 3]>>
            \o [i \in 1..Len(pick) |-> all[pick[i]]]

\* The graph with the given edges; entry says whether the Service c carries
\* isServiceEntry.
DrawnGraph(cns, xns, entry, es, opts) ==
    LET S == withEdges(withNodes(NoStore, GraphNodes(cns, xns), 6, opts), es, Len(es))
    IN  IF entry THEN SetNodeMd(S, 4, Put(S.nodes[4].Metadata, "isServiceEntry", TRUE)) ELSE S

\* The namespace loop of a request for ns1, which may access ns1 and ns2, has
\* left a drawn graph in the global map.
InitGraph ==
    \E opts \in [GraphType : {GraphTypeWorkload, GraphTypeService},
                 InjectServiceNodes : {TRUE},
                 Namespaces : {{"ns1"}},
                 AccessibleNamespaces : {{"ns1", "ns2"}},
                 Appenders : {<< >>}] :
      \E cns \in {"ns1", "ns2", "ns3"}, xns \in {"ns2", "ns3"}, entry \in BOOLEAN,
         present \in SUBSET (1..6), p1 \in EdgeProtocols, p2 \in EdgeProtocols :
        LET G == DrawnGraph(cns, xns, entry, GraphEdges(present, p1, p2), opts)
        IN  /\ nodes = G.nodes
            /\ edges = G.edges
            /\ trafficMap = G.tm
            /\ nsTrafficMap = G.tm
            /\ curNs = "ns1"
            /\ o = opts
            /\ mesh = [Workloads |-> {}, HttpServices |-> {}, TcpServices |-> {}]
            /\ pending = {}
            /\ pc = "loop"
            /\ tel = Put(EmptyMap, "ns1", NoVectors)
            /\ hist = NoStore
            /\ Idle

NextGraph ==
    \/ MarkOutside
    \/ MarkGenerators
    \/ Reduce

SpecGraph == InitGraph /\ [][NextGraph]_vars

\* markOutsideOrInaccessible has just run: hist is the store it ran on.
AfterMarkOutside == pc = "marked"

\* The nodes of the graph that carry the mark k.
Marked(k) == {n \in Stored(GlobalStore) : Has(nodes[n].Metadata, k) /\ nodes[n].Metadata[k] = TRUE}

\* Node n is outside: its namespace is neither the sentinel nor requested.
OutsideRequested(n) == nodes[n].Namespace # Unknown /\ nodes[n].Namespace \notin o.Namespaces

IsServiceEntry(n) ==
    nodes[n].NodeType = NodeTypeService /\ Has(hist.nodes[n].Metadata, "isServiceEntry")

\* C11: after markOutsideOrInaccessible a node is marked isInaccessible if
\* and only if it is a Service node flagged isServiceEntry, or it is outside
\* the requested namespaces and its namespace is not accessible.
C11_InaccessibleIff ==
    AfterMarkOutside =>
        \A n \in Stored(GlobalStore) :
            n \in Marked("isInaccessible")
                <=> \/ IsServiceEntry(n)
                    \/ OutsideRequested(n) /\ nodes[n].Namespace \notin o.AccessibleNamespaces

\* C11 as amended: a node is marked isInaccessible if and only if it is an
\* Unknown node, a Service node flagged isServiceEntry, or outside the
\* requested namespaces with a namespace that is not accessible.
C11_InaccessibleIffAmended ==
    AfterMarkOutside =>
        \A n \in Stored(GlobalStore) :
            n \in Marked("isInaccessible")
                <=> \/ nodes[n].NodeType = NodeTypeUnknown
                    \/ IsServiceEntry(n)
                    \/ OutsideRequested(n) /\ nodes[n].Namespace \notin o.AccessibleNamespaces

\* C11 witness: the classifier has marked a service entry of a requested
\* namespace, an outside workload and the unknown node inaccessible, and has
\* left a node of the requested namespace unmarked.
C11_Witness ==
    /\ AfterMarkOutside
    /\ \E n \in Marked("isInaccessible") : IsServiceEntry(n) /\ ~OutsideRequested(n)
    /\ \E n \in Marked("isInaccessible") : nodes[n].NodeType = NodeTypeWorkload
    /\ \E n \in Marked("isInaccessible") : nodes[n].NodeType = NodeTypeUnknown
    /\ \E n \in Stored(GlobalStore) \ Marked("isInaccessible") : nodes[n].Namespace = "ns1"

\* C12: after markOutsideOrInaccessible every node whose namespace is neither
\* the sentinel nor requested has isOutside = true, and no other node has
\* isOutside.
C12_OutsideIff ==
    AfterMarkOutside =>
        \A n \in Stored(GlobalStore) :
            /\ OutsideRequested(n) => n \in Marked("isOutside")
            /\ ~OutsideRequested(n) => ~Has(nodes[n].Metadata, "isOutside")

\* The ids reduceToServiceGraph is to keep: those of the Service nodes and
\* those of the other nodes with isRoot = true.
KeptIds ==
    {id \in DOMAIN hist.tm :
        LET n == hist.nodes[hist.tm[id]]
        IN  \/ n.NodeType = NodeTypeService
            \/ Has(n.Metadata, "isRoot") /\ n.Metadata["isRoot"] = TRUE}

\* C13: the key set of the map reduceToServiceGraph returns is the ids of
\* the Service nodes and of the non-Service nodes with isRoot = true of its
\* input, and each id maps to the node it mapped to in the input.
C13_ReducedKeySet ==
    AfterReduce =>
        /\ DOMAIN trafficMap = KeptIds
        /\ \A id \in DOMAIN trafficMap : trafficMap[id] = hist.tm[id]

\* C13 witness: the reducer has kept a Service node and a root that is no
\* Service node, and has dropped a node.
C13_Witness ==
    /\ AfterReduce
    /\ \E id \in DOMAIN trafficMap : nodes[trafficMap[id]].NodeType = NodeTypeService
    /\ \E id \in DOMAIN trafficMap : nodes[trafficMap[id]].NodeType = NodeTypeWorkload
    /\ DOMAIN hist.tm \ DOMAIN trafficMap # {}

\* reduceToServiceGraph has run, to its end or to a fatal error: hist is the
\* graph it was given.
ReduceOver == pc \in {"done", "panic"} /\ o.GraphType = GraphTypeService

\* The edges to a child Service of the intermediate nodes of the Service
\* nodes of the given graph whose protocol is neither http nor tcp.
OddServiceEdges ==
    {e \in UNION {Range(hist.nodes[w].Edges) : w \in UNION {Intermediates(s) : s \in ServiceNodes}} :
        /\ hist.nodes[hist.edges[e].Dest].NodeType = NodeTypeService
        /\ Get(hist.edges[e].Metadata, "protocol") \notin {"http", "tcp"}}

\* C14: reduceToServiceGraph ends with a fatal error, and returns no graph,
\* whenever an edge of an intermediate node to a child Service that it
\* re-emits or merges has a protocol other than http or tcp.
C14_OddProtocolIsFatal ==
    (ReduceOver /\ OddServiceEdges # {}) => pc = "panic"

-----------------------------------------------------------------------------
(* The order of the pipeline *)

\* The traffic vectors the builder has consumed for the current namespace.
Consumed == IF curNs \in DOMAIN tel THEN [k \in BuildPhases |-> tel[curNs][k]] ELSE << >>

-----------------------------------------------------------------------------
(* Query failures *)

\* A query of the request has failed.
QueryFailed == \E ns \in DOMAIN tel : tel[ns].err

-----------------------------------------------------------------------------
(* The response-time appender *)

\* The appender has run on the map of the current namespace.
AfterAppend == pc = "appended" /\ o.Appenders # << >> /\ DOMAIN nsTrafficMap # {}

\* The results of the response-time query, keyed "{sourceId} {destId}".
Results ==
    populateResponseTimeMapAll(EmptyMap, tel[curNs].rt, 1,
                               [GraphType |-> o.GraphType, InjectServiceNodes |-> o.InjectServiceNodes])

\* C20: after the response-time appender, an edge for which a result keyed
\* "{sourceId} {destId}" exists holds that result as its responseTime (the
\* builder leaves no earlier contribution on it), and an edge for which no
\* result exists holds no responseTime.
C20_OnlyTargetEdges ==
    AfterAppend =>
        \A e \in StoredEdges(NsStore) :
            LET key == RtKey(nodes[edges[e].Source].ID, nodes[edges[e].Dest].ID)
            IN  IF Has(Results, key)
                THEN /\ Has(edges[e].Metadata, "responseTime")
                     /\ edges[e].Metadata["responseTime"] = Results[key]
                ELSE ~Has(edges[e].Metadata, "responseTime")

-----------------------------------------------------------------------------
(* Samples that lack a label *)

\* The attribution labels a sample of the vector kind needs: the source
\* workload and its namespace, the destination service, its namespace and
\* its workload, and for tcp the app and version of both sides; the unknown
\* source query of tcp names the destination namespace by the workload.
WellFormed(kind, s) ==
    LET ls == DOMAIN s.Metric
    IN  IF kind = "http"
        THEN {"namespace", "deployment", "dst_namespace", "dst_service", "dst_deployment"} \subseteq ls
        ELSE /\ {"source_workload_namespace", "source_workload", "source_app", "source_version",
                 "destination_service_name", "destination_workload", "destination_app",
                 "destination_version"} \subseteq ls
             /\ {"destination_service_namespace", "destination_workload_namespace"} \cap ls # {}

\* The vector without its malformed samples.
RECURSIVE Accepted(_, _)
Accepted(kind, vector) ==
    IF vector = << >> THEN << >>
    ELSE (IF WellFormed(kind, Head(vector)) THEN <<Head(vector)>> ELSE << >>)
         \o Accepted(kind, Tail(vector))

\* The vectors of the current namespace without their malformed samples.
AcceptedVectors == [k \in BuildPhases |-> Accepted(k, tel[curNs][k])]

\* C17: a sample that lacks a required label is skipped and the build goes
\* on: at every point of the build the namespace map, with its nodes and
\* edges, is the one built from the vectors consumed so far with the
\* malformed samples removed.
C17_MalformedSkipped ==
    pc \in BuildPhases => NsStore = buildNamespaceTrafficMap(NoStore, AcceptedVectors, o)

\* A malformed http sample was followed by a well-formed tcp sample, which
\* is in the map.
C17_Witness ==
    /\ pc \in BuildPhases
    /\ Len(tel[curNs].http) = 1
    /\ ~WellFormed("http", tel[curNs].http[1])
    /\ \E k \in {"tcpUnk", "tcpIn"} :
          Len(tel[curNs][k]) = 1 /\ WellFormed(k, tel[curNs][k][1])
    /\ edges # << >>

-----------------------------------------------------------------------------
(* The edges of one sample *)

\* A step of the builder that populates one sample.
PopulateStep == pc \in BuildPhases /\ pc' \in BuildPhases

\* The sample populated last.
Sample == tel[curNs][pc][Len(tel[curNs][pc])]

\* The attribution of a well-formed sample s of the vector kind: the http
\* series carry no app and version labels.
Attribution(kind, s) ==
    LET m == s.Metric
    IN  IF kind = "http"
        THEN [sourceNs |-> m["namespace"], sourceWl |-> m["deployment"],
              sourceApp |-> "Unknown", sourceVer |-> "Unknown",
              destNs |-> m["dst_namespace"], destSvc |-> m["dst_service"],
              destWl |-> m["dst_deployment"], destApp |-> "Unknown", destVer |-> "Unknown"]
        ELSE [sourceNs |-> m["source_workload_namespace"], sourceWl |-> m["source_workload"],
              sourceApp |-> m["source_app"], sourceVer |-> m["source_version"],
              destNs |-> IF "destination_service_namespace" \in DOMAIN m
                         THEN m["destination_service_namespace"]
                         ELSE m["destination_workload_namespace"],
              destSvc |-> m["destination_service_name"],
              destWl |-> m["destination_workload"],
              destApp |-> m["destination_app"], destVer |-> m["destination_version"]]

\* The id of the source, the id and kind of the destination and the id of
\* the destination service of an attribution.
SourceOf(a) == Id(a.sourceNs, a.sourceWl, a.sourceApp, a.sourceVer, "", o.GraphType)

DestOf(a) == Id(a.destNs, a.destWl, a.destApp, a.destVer, a.destSvc, o.GraphType)

ServiceOf(a) == Id(a.destNs, "", "", "", a.destSvc, o.GraphType)

\* The counter of protocol p on edge e of the heap E, 0 for an edge not yet
\* allocated.
EdgeCounter(E, e, p) == IF e \in DOMAIN E THEN Counter(E[e].Metadata, p) ELSE 0

\* <<source id, dest id>> of edge e of the store S.
Hop(S, e) == <<S.nodes[S.edges[e].Source].ID, S.nodes[S.edges[e].Dest].ID>>

\* C18: with injectServiceNodes, an accepted sample of value v > 0 whose
\* destination is no Service node and whose destination service is known
\* adds v to exactly two edges, source -> Service and Service -> dest, and
\* allocates no edge source -> dest; any other accepted sample adds v to
\* exactly one edge, source -> dest.
C18_InjectedHops ==
    [][PopulateStep /\ WellFormed(pc', Sample') /\ Sample'.Value > 0 =>
        LET a == Attribution(pc', Sample')
            p == IF pc' = "http" THEN "http" ELSE "tcp"
            grown == {e \in DOMAIN edges' : EdgeCounter(edges', e, p) # EdgeCounter(edges, e, p)}
            hops == {Hop(NsStore', e) : e \in grown}
            direct == <<SourceOf(a).id, DestOf(a).id>>
        IN  /\ \A e \in grown : EdgeCounter(edges', e, p) = EdgeCounter(edges, e, p) + Sample'.Value
            /\ IF o.InjectServiceNodes /\ DestOf(a).nodeType # NodeTypeService /\ IsOK(a.destSvc)
               THEN /\ Cardinality(grown) = 2
                    /\ hops = {<<SourceOf(a).id, ServiceOf(a).id>>, <<ServiceOf(a).id, DestOf(a).id>>}
                    /\ \A e \in (DOMAIN edges') \ (DOMAIN edges) : Hop(NsStore', e) # direct
               ELSE /\ Cardinality(grown) = 1
                    /\ hops = {direct}]_vars

-----------------------------------------------------------------------------
(* Samples whose labels differ from the labels of the node *)

\* What a node shows of its labels: app, version and the isMisconfigured mark.
Labels(S, id) ==
    [App |-> S.nodes[S.tm[id]].App, Version |-> S.nodes[S.tm[id]].Version,
     mis |-> Get(S.nodes[S.tm[id]].Metadata, "isMisconfigured")]

\* The <<app, version>> by which attribution a refers to the node id: as the
\* source, as the destination, or as both, in this order.
Refs(a, id) ==
    (IF SourceOf(a).id = id THEN << <<a.sourceApp, a.sourceVer>> >> ELSE << >>)
    \o (IF DestOf(a).id = id THEN << <<a.destApp, a.destVer>> >> ELSE << >>)

\* The kinds of node the labels are reconciled on.
Reconciled(kind) ==
    kind = NodeTypeWorkload \/ (kind = NodeTypeApp /\ o.GraphType = GraphTypeVersionedApp)

\* The labels r of a node after a sample of value v referred to it by ref.
Reconcile(r, ref, v) ==
    LET differing == (IF r.App # ref[1] THEN <<"app">> ELSE << >>)
                     \o (IF r.Version # ref[2] THEN <<"version">> ELSE << >>)
    IN  IF differing = << >> THEN r
        ELSE [App |-> IF v # 0 THEN ref[1] ELSE r.App,
              Version |-> IF v # 0 THEN ref[2] ELSE r.Version,
              mis |-> FormatLabels(differing)]

RECURSIVE ReconcileAll(_, _, _)
ReconcileAll(r, refs, v) ==
    IF refs = << >> THEN r ELSE ReconcileAll(Reconcile(r, Head(refs), v), Tail(refs), v)

\* The labels of a node that ref creates.
Fresh(ref) == [App |-> ref[1], Version |-> ref[2], mis |-> Nil]

\* The nodes that were in the map before the step show the labels expected.
ExistingReconciled ==
    LET a == Attribution(pc', Sample')
    IN  \A id \in DOMAIN nsTrafficMap :
            Labels(NsStore', id) =
                IF Reconciled(nodes[nsTrafficMap[id]].NodeType)
                THEN ReconcileAll(Labels(NsStore, id), Refs(a, id), Sample'.Value)
                ELSE Labels(NsStore, id)

\* C19: a sample that refers to a node that was in the map, of kind Workload
\* (or App under the versionedApp graph type), with an app or version other
\* than the node's marks the node isMisconfigured with the differing fields
\* and overwrites the node's app and version only if its value is not 0; a
\* node of another kind is left as it was; a node the sample creates holds
\* the labels it was created with and no mark.
C19_MisconfiguredLabels ==
    [][PopulateStep /\ WellFormed(pc', Sample') =>
        /\ ExistingReconciled
        /\ \A id \in (DOMAIN nsTrafficMap') \ (DOMAIN nsTrafficMap) :
              LET refs == Refs(Attribution(pc', Sample'), id)
              IN  /\ Labels(NsStore', id).mis = Nil
                  /\ Reconciled(nodes'[nsTrafficMap'[id]].NodeType) /\ refs # << >> =>
                        Labels(NsStore', id) = Fresh(Head(refs))]_vars

\* C19, amended: as C19 for the nodes that were in the map and for the nodes
\* of another kind; a node the sample creates is not reconciled by the lookup
\* that creates it, but when the sample names it as source and as
\* destination, the destination lookup finds the node the source lookup
\* created and reconciles it with the destination labels.
C19_MisconfiguredLabelsAmended ==
    [][PopulateStep /\ WellFormed(pc', Sample') =>
        /\ ExistingReconciled
        /\ \A id \in (DOMAIN nsTrafficMap') \ (DOMAIN nsTrafficMap) :
              LET refs == Refs(Attribution(pc', Sample'), id)
              IN  IF Reconciled(nodes'[nsTrafficMap'[id]].NodeType) /\ refs # << >>
                  THEN Labels(NsStore', id) =
                           ReconcileAll(Fresh(Head(refs)), Tail(refs), Sample'.Value)
                  ELSE Labels(NsStore', id).mis = Nil]_vars

\* A sample of value 0 referred to a workload that was in the map with
\* another version: the workload is marked and keeps its version.
C19_Witness ==
    /\ pc = "tcpIn"
    /\ Len(tel[curNs].tcpUnk) = 1
    /\ Len(tel[curNs].tcpIn) = 1
    /\ WellFormed("tcpIn", Sample)
    /\ Sample.Value = 0
    /\ \E id \in DOMAIN nsTrafficMap :
          /\ Labels(NsStore, id).mis = "labels=[version]"
          /\ Labels(NsStore, id).Version # Sample.Metric["destination_version"]

-----------------------------------------------------------------------------
(* The edges of the reduced graph *)

\* The service-injected graph of the request has been reduced.
AfterInjectedReduce == AfterReduce /\ o.InjectServiceNodes

\* C25: in the reduced map of a service-injected graph every edge in the edge
\* list of a Service node n has n for its source and a Service node stored in
\* the reduced map for its dest, and no edge of a stored node has a dest that
\* was dropped.
C25_ReducedEdges ==
    AfterInjectedReduce =>
        /\ \A n \in {m \in Stored(GlobalStore) : nodes[m].NodeType = NodeTypeService} :
              \A e \in Range(nodes[n].Edges) :
                  /\ edges[e].Source = n
                  /\ edges[e].Dest \in Stored(GlobalStore)
                  /\ nodes[edges[e].Dest].NodeType = NodeTypeService
        /\ \A e \in StoredEdges(GlobalStore) : edges[e].Dest \in Stored(GlobalStore)

-----------------------------------------------------------------------------
(* Node types the reducer does not expect *)

\* A Service node of the given graph has an edge whose dest is no Workload
\* node, or whose dest is a Workload node with an edge to a node that is no
\* Service node.
TypeMismatch ==
    \E s \in ServiceNodes : \E w \in Intermediates(s) :
        \/ hist.nodes[w].NodeType # NodeTypeWorkload
        \/ \E e \in Range(hist.nodes[w].Edges) :
              hist.nodes[hist.edges[e].Dest].NodeType # NodeTypeService

\* Every edge of the given graph is an http or a tcp edge.
AllHttpOrTcp ==
    \A e \in StoredEdges(hist) : Get(hist.edges[e].Metadata, "protocol") \in {"http", "tcp"}

-----------------------------------------------------------------------------
(* The counters of the merged graph *)

\* C27: in the global map, once the maps of all requested namespaces have
\* been merged, the httpOut of the nodes, the httpIn of the nodes and the http
\* of the edges add up to the same value.
C27_MergedConservation ==
    AllMerged =>
        /\ NodeSum(GlobalStore, "httpOut") = EdgeSum(GlobalStore, "http")
        /\ NodeSum(GlobalStore, "httpIn") = EdgeSum(GlobalStore, "http")

-----------------------------------------------------------------------------
(* graph/appender/response_time.go: the quantile of the response-time      *)
(* queries.  A quantile is an integer number of hundredths: the queries    *)
(* write it with "%.2f".                                                   *)

\* The graph handlers are not running.
NoRequest ==
    /\ nodes = << >>
    /\ edges = << >>
    /\ trafficMap = NewTrafficMap
    /\ nsTrafficMap = NewTrafficMap
    /\ curNs = ""
    /\ o = "none"
    /\ mesh = "none"
    /\ pending = {}
    /\ pc = "idle"
    /\ tel = EmptyMap
    /\ hist = NoStore

\* DefaultQuantile = 0.95
DefaultQuantile == 95

\* Configured quantiles run from -MaxQuantile/100 to MaxQuantile/100, and
\* from (10000 - MaxNear)/100 to (10000 + MaxNear)/100 around the code's 100.0.
MaxQuantile == 120

MaxNear == 2

Quantiles == (-MaxQuantile .. MaxQuantile) \cup ((10000 - MaxNear) .. (10000 + MaxNear))

\* appendGraph: `quantile := a.Quantile; if a.Quantile <= 0.0 || a.Quantile >= 100.0 { quantile = DefaultQuantile }`
appendGraph_quantile(a) == IF a.Quantile <= 0 \/ a.Quantile >= 10000 THEN DefaultQuantile ELSE a.Quantile

\* appendGraph up to its queries, which carry histogram_quantile(quantile, ...).
ChooseQuantile ==
    /\ rtAppender.at = "appendGraph"
    /\ rtAppender' = [rtAppender EXCEPT !.at = "queried", !.quantile = appendGraph_quantile(rtAppender)]
    /\ UNCHANGED <<graphVars, cancelled, averages, stringSet, dashboard, jaeger>>

\* A response-time appender with any configured quantile.
InitQuantile ==
    /\ NoRequest
    /\ cancelled = FALSE
    /\ rtAppender \in [Quantile : Quantiles, quantile : {0}, at : {"appendGraph"}]
    /\ averages = "none"
    /\ stringSet = "none"
    /\ dashboard = "none"
    /\ jaeger = "none"

NextQuantile ==
    \/ ChooseQuantile

SpecQuantile == InitQuantile /\ [][NextQuantile]_vars

\* C21: the response-time appender queries with the configured quantile q
\* only when 0 < q < 1 (0 < q < 100 in hundredths); for every q <= 0 and every
\* q >= 1 the query carries the default 0.95.
C21_QuantileRange ==
    rtAppender.at = "queried" =>
        rtAppender.quantile = IF 0 < rtAppender.Quantile /\ rtAppender.Quantile < 100
                              THEN rtAppender.Quantile
                              ELSE DefaultQuantile

-----------------------------------------------------------------------------
(* averageMetadataValue and averageResponseTime, called repeatedly on one  *)
(* key of a map                                                            *)

\* Calls of each of the two functions on its map.
MaxCalls == 3

\* The float64 values of the calls.
AverageValues == {RatOfInt(0), RatOfInt(1), Rat(3, 2)}

\* The maps before the first call: without the key and its two shadow keys,
\* with or without another key.
FreshMaps == {EmptyMap, Put(EmptyMap, "rate", RatOfInt(7))}

\* averageMetadataValue(md, "responseTime", v)
AverageMetadataValue ==
    /\ Len(averages.vals) < MaxCalls
    /\ \E v \in AverageValues :
         averages' = [averages EXCEPT !.md = averageMetadataValue(averages.md, "responseTime", v),
                                      !.vals = Append(averages.vals, v)]
    /\ UNCHANGED <<graphVars, cancelled, rtAppender, stringSet, dashboard, jaeger>>

\* averageResponseTime(responseTimeMap, key, val)
AverageResponseTime ==
    /\ Len(averages.rtVals) < MaxCalls
    /\ \E val \in AverageValues :
         averages' = [averages EXCEPT
                          !.responseTimeMap = averageResponseTime(averages.responseTimeMap, RtKey("a", "b"), val),
                          !.rtVals = Append(averages.rtVals, val)]
    /\ UNCHANGED <<graphVars, cancelled, rtAppender, stringSet, dashboard, jaeger>>

InitAverages ==
    /\ NoRequest
    /\ cancelled = FALSE
    /\ rtAppender = "none"
    /\ \E md0 \in FreshMaps, rt0 \in FreshMaps :
         averages = [md0 |-> md0, md |-> md0, vals |-> << >>,
                     rt0 |-> rt0, responseTimeMap |-> rt0, rtVals |-> << >>]
    /\ stringSet = "none"
    /\ dashboard = "none"
    /\ jaeger = "none"

NextAverages ==
    \/ AverageMetadataValue
    \/ AverageResponseTime

SpecAverages == InitAverages /\ [][NextAverages]_vars

RECURSIVE RatSum(_)
RatSum(vs) == IF vs = << >> THEN RatOfInt(0) ELSE RatAdd(Head(vs), RatSum(Tail(vs)))

\* Map m is map m0 with k_total = the sum of vs, k_count = n and
\* k = sum / Len(vs), and nothing else changed.
Averaged(m0, m, k, vs, n) ==
    /\ DOMAIN m = DOMAIN m0 \cup {k, k \o "_total", k \o "_count"}
    /\ m[k \o "_total"] = RatSum(vs)
    /\ m[k \o "_count"] = n
    /\ m[k] = RatDivInt(RatSum(vs), Len(vs))
    /\ \A x \in DOMAIN m0 : m[x] = m0[x]

\* C22: from a map without key, key_total and key_count, after n >= 1 calls of
\* averageMetadataValue (of averageResponseTime) with v1..vn on the key the map
\* holds key_total = v1+...+vn, key_count = n and key = (v1+...+vn)/n, and
\* every other key is as it was.
C22_RunningAverage ==
    /\ averages.vals # << >> =>
         Averaged(averages.md0, averages.md, "responseTime", averages.vals, Len(averages.vals))
    /\ averages.rtVals # << >> =>
         Averaged(averages.rt0, averages.responseTimeMap, RtKey("a", "b"), averages.rtVals,
                  RatOfInt(Len(averages.rtVals)))

\* Three calls of each function, with different values, on maps that hold
\* another key.
C22_Witness ==
    /\ Len(averages.vals) = 3
    /\ Len(averages.rtVals) = 3
    /\ averages.vals[1] # averages.vals[2]
    /\ averages.rtVals[2] # averages.rtVals[3]
    /\ Has(averages.md0, "rate")
    /\ Has(averages.rt0, "rate")
    /\ averages.md["responseTime"] = Rat(5, 6)

-----------------------------------------------------------------------------
(* util/maps.go *)

\* Length of the argument of StringSet.
MaxLen == 4

Strings == {"", "a", "b"}

RECURSIVE SeqsUpTo(_)
SeqsUpTo(n) == IF n = 0 THEN {<< >>} ELSE SeqsUpTo(n - 1) \cup [1..n -> Strings]

\* `for _, s := range arr { indexed[s] = s }` over the first n elements.
RECURSIVE Indexed(_, _)
Indexed(arr, n) == IF n = 0 THEN EmptyMap ELSE Put(Indexed(arr, n - 1), arr[n], arr[n])

\* Mutant of StringSet: the loop misses the last element.
StringSet_MissLast(arr) == IF arr = << >> THEN EmptyMap ELSE Indexed(arr, Len(arr) - 1)

StringSet(arr) == Indexed(arr, Len(arr))

\* indexed := util.StringSet(arr)
CallStringSet ==
    /\ stringSet.at = "call"
    /\ stringSet' = [stringSet EXCEPT !.at = "returned", !.indexed = StringSet(stringSet.arr)]
    /\ UNCHANGED <<graphVars, cancelled, rtAppender, averages, dashboard, jaeger>>

InitStringSet ==
    /\ NoRequest
    /\ cancelled = FALSE
    /\ rtAppender = "none"
    /\ averages = "none"
    /\ \E arr \in SeqsUpTo(MaxLen) : stringSet = [arr |-> arr, indexed |-> EmptyMap, at |-> "call"]
    /\ dashboard = "none"
    /\ jaeger = "none"

NextStringSet ==
    \/ CallStringSet

SpecStringSet == InitStringSet /\ [][NextStringSet]_vars

\* C24: the keys of StringSet(arr) are exactly the distinct strings of arr,
\* every key maps to itself, and the map has as many entries as arr has distinct
\* elements.
C24_StringSet ==
    stringSet.at = "returned" =>
        /\ DOMAIN stringSet.indexed = Range(stringSet.arr)
        /\ \A s \in DOMAIN stringSet.indexed : stringSet.indexed[s] = s
        /\ Cardinality(DOMAIN stringSet.indexed) = Cardinality(Range(stringSet.arr))

\* StringSet has returned for an array that repeats a string and ends with a
\* string that occurs once.
C24_Witness ==
    /\ stringSet.at = "returned"
    /\ stringSet.arr = <<"a", "", "a", "b">>
    /\ DOMAIN stringSet.indexed = {"", "a", "b"}

-----------------------------------------------------------------------------
(* The node graph: GraphNode, graphNode, buildNodeTrafficMap.  The node of  *)
(* the request is a workload.  Of the query vectors of buildNodeTrafficMap, *)
(* tel[ns].http holds the samples of its http vectors, tel[ns].tcpExt those *)
(* of tcpInVector and tel[ns].tcpIn those of tcpOutVector.                  *)

\* The series of istio_requests_total of the mesh.
HttpSeries ==
    {[Metric |-> [source_workload_namespace |-> w.ns, source_workload |-> w.name,
                  source_app |-> "app", source_version |-> "v1",
                  destination_service_namespace |-> d[1].ns,
                  destination_service_name |-> d[1].name,
                  destination_workload |-> d[2].name,
                  destination_app |-> "app", destination_version |-> "v1",
                  response_code |-> "200"],
      Value |-> v] :
        w \in mesh.Workloads, d \in Destinations(mesh.HttpServices), v \in SampleValues}

\* The series of istio_requests_total from or to workload n of namespace ns,
\* grouped by source_workload_namespace, ..., response_code.
NodeHttpSamples(ns, n) ==
    {s \in HttpSeries : \/ s.Metric.source_workload_namespace = ns /\ s.Metric.source_workload = n
                        \/ s.Metric.destination_service_namespace = ns /\ s.Metric.destination_workload = n}

\* The series of istio_tcp_sent_bytes_total of the mesh.
TcpSeries ==
    {[Metric |-> [source_workload_namespace |-> w.ns, source_workload |-> w.name,
                  source_app |-> "app", source_version |-> "v1",
                  destination_service_namespace |-> d[1].ns,
                  destination_service_name |-> d[1].name,
                  destination_workload |-> d[2].name,
                  destination_app |-> "app", destination_version |-> "v1"],
      Value |-> v] :
        w \in mesh.Workloads, d \in Destinations(mesh.TcpServices), v \in SampleValues}

\* The series of istio_tcp_sent_bytes_total to workload n of namespace ns
\* (tcpInVector, kind "tcpExt") and from it (tcpOutVector, kind "tcpIn").
NodeTcpSamples(kind, ns, n) ==
    {s \in TcpSeries :
        IF kind = "tcpExt"
        THEN s.Metric.destination_service_namespace = ns /\ s.Metric.destination_workload = n
        ELSE s.Metric.source_workload_namespace = ns /\ s.Metric.source_workload = n}

\* Mutant of GraphNodeEntry: the vendor and the namespaces are not checked.
GraphNodeEntry_NoCheck ==
    /\ pc = "node"
    /\ curNs' = o.NodeOptions.Namespace
    /\ tel' = Put(tel, o.NodeOptions.Namespace, NoVectors)
    /\ nsTrafficMap' = NewTrafficMap
    /\ pc' = "http"
    /\ UNCHANGED <<nodes, edges, trafficMap, pending, o, mesh, others, hist>>

\* graphNode up to the first query of buildNodeTrafficMap: graph.Error panics
\* for a vendor that is not "cytoscape" and for len(o.Namespaces) != 1.
GraphNodeEntry ==
    /\ pc = "node"
    /\ IF o.Vendor # "cytoscape" \/ Cardinality(o.Namespaces) # 1
       THEN /\ pc' = "panic"
            /\ UNCHANGED <<curNs, tel, nsTrafficMap>>
       ELSE /\ curNs' = o.NodeOptions.Namespace
            /\ tel' = Put(tel, o.NodeOptions.Namespace, NoVectors)
            /\ nsTrafficMap' = NewTrafficMap
            /\ pc' = "http"
    /\ UNCHANGED <<nodes, edges, trafficMap, pending, o, mesh, others, hist>>

\* populateTrafficMapHttp on a sample of inVector, outVector or outIstioVector.
PopulateNodeHttp ==
    \E s \in NodeHttpSamples(curNs, o.NodeOptions.Workload) :
        Populate("http", s, populateTrafficMapHttp(NsStore, s, o))

\* populateTrafficMapTcp on a sample of tcpInVector or tcpOutVector.
PopulateNodeTcp ==
    \E kind \in {"tcpExt", "tcpIn"} :
        \E s \in NodeTcpSamples(kind, curNs, o.NodeOptions.Workload) :
            Populate(kind, s, populateTrafficMapTcp(NsStore, s, o))

\* graphNode: buildNodeTrafficMap has returned the traffic map; the loop over
\* o.Appenders runs on it.
NodeAppenders ==
    /\ pc \in BuildPhases
    /\ IF o.Appenders = << >> \/ DOMAIN nsTrafficMap = {}
       THEN UNCHANGED <<nodes, edges, tel>>
       ELSE \E vector \in RtVectors(curNs) :
                LET S == AppendGraph(NsStore, vector,
                                     [GraphType |-> o.GraphType,
                                      InjectServiceNodes |-> o.InjectServiceNodes])
                IN  /\ nodes' = S.nodes
                    /\ edges' = S.edges
                    /\ tel' = [tel EXCEPT ![curNs].rt = vector]
    /\ trafficMap' = nsTrafficMap
    /\ pc' = "loop"
    /\ UNCHANGED <<nsTrafficMap, curNs, pending, o, mesh, others, hist>>

\* graphNode: markTrafficGenerators; the node graph is not reduced.
MarkNodeGenerators ==
    /\ pc = "marked"
    /\ nodes' = markTrafficGenerators(GlobalStore).nodes
    /\ hist' = GlobalStore
    /\ pc' = "done"
    /\ UNCHANGED <<edges, trafficMap, nsTrafficMap, curNs, pending, o, tel, mesh, others>>

\* Node-graph requests for workload a of ns1, of any vendor and with any
\* number of namespaces.
InitNode ==
    /\ nodes = << >>
    /\ edges = << >>
    /\ trafficMap = NewTrafficMap
    /\ nsTrafficMap = NewTrafficMap
    /\ curNs = ""
    /\ o \in [GraphType : {GraphTypeWorkload},
              InjectServiceNodes : BOOLEAN,
              Namespaces : {{}, {"ns1"}, {"ns1", "ns2"}},
              AccessibleNamespaces : {{"ns1", "ns2"}},
              Appenders : {<< >>, <<ResponseTimeAppenderName>>},
              Vendor : {"cytoscape", "graphviz"},
              NodeOptions : {[Namespace |-> "ns1", Workload |-> "a"]}]
    /\ mesh = [Workloads |-> {At("ns1", "a"), At("ns2", "b")},
               HttpServices |-> {At("ns2", "x")},
               TcpServices |-> {At("ns1", "x"), At("ns2", "x")}]
    /\ pending = {}
    /\ pc = "node"
    /\ tel = EmptyMap
    /\ hist = NoStore
    /\ Idle

\* GraphNode
NextNode ==
    \/ GraphNodeEntry
    \/ PopulateNodeHttp
    \/ PopulateNodeTcp
    \/ QueryFails
    \/ NodeAppenders
    \/ MarkOutside
    \/ MarkNodeGenerators
    \/ GenerateGraph
    \/ HandlePanic

SpecNode == InitNode /\ [][NextNode]_vars

\* The request is malformed: its vendor is not supported or it does not name
\* exactly one namespace.
Malformed == o.Vendor # "cytoscape" \/ Cardinality(o.Namespaces) # 1

\* C23: a node-graph request that does not name exactly one namespace, or
\* whose vendor is unsupported, ends in the error response: no query is issued
\* for it (no vector is consumed and no query fails), no appender runs, no node
\* or edge is built and no graph is written.
C23_MalformedRejected ==
    Malformed =>
        /\ pc \in {"node", "panic", "error"}
        /\ tel = EmptyMap
        /\ nodes = << >>
        /\ edges = << >>
        /\ DOMAIN trafficMap = {}

\* A request with a supported vendor and two namespaces has got its error
\* response.
C23_Witness ==
    /\ o.Vendor = "cytoscape"
    /\ Cardinality(o.Namespaces) = 2
    /\ pc = "error"

-----------------------------------------------------------------------------
(* Cancellation of the request.  GraphNamespaces never reads r.Context() and *)
(* promQuery runs each query under context.WithCancel(context.Background()): *)
(* no step of the handlers reads `cancelled`.                               *)

\* The client disconnects or the deadline of the request passes while the
\* handler runs: the context of the *http.Request is done.
CancelRequest ==
    /\ ~cancelled
    /\ pc \notin {"responded", "error"}
    /\ cancelled' = TRUE
    /\ UNCHANGED <<graphVars, rtAppender, averages, stringSet, dashboard, jaeger>>

\* GraphNamespaces, and the request's context
NextCancel ==
    \/ StartNamespace
    \/ PopulateHttp
    \/ PopulateTcp
    \/ QueryFails
    \/ RunAppenders
    \/ Merge
    \/ MarkOutside
    \/ MarkGenerators
    \/ Reduce
    \/ GenerateGraph
    \/ HandlePanic
    \/ CancelRequest

SpecCancel == InitRequest /\ [][NextCancel]_vars

\* C28: once the request is cancelled no sample of a query vector is consumed
\* any more (the queries in flight are cancelled, their results are dropped)
\* and the merge of a namespace map leaves the global map as it is.
C28_CancelPropagates ==
    [][cancelled => /\ NumSamples' = NumSamples
                    /\ pc = "appended" => trafficMap' = trafficMap]_vars

-----------------------------------------------------------------------------
(* business DashboardsService.GetDashboard (jaeger/info.go).  The loop      *)
(* variable c of `for i, c := range dashboard.Spec.Charts` is one variable  *)
(* for the whole loop; the goroutines get i and c by value as idx and chart *)
(* but read c itself in models.ConvertChart(c), unsynchronized with the     *)
(* loop's next assignment to c.                                             *)

\* Charts of the dashboard.
MaxCharts == 3

\* kubernetes.MonitoringDashboardChart number i with metric type t.
Chart(i, t) == [Name |-> <<"chart", i>>, Unit |-> <<"unit", i>>, MetricName |-> <<"metric", i>>, MetricType |-> t]

\* The dashboards of in.mon.GetDashboard: up to MaxCharts charts, each of a
\* counter or of a histogram.
Dashboards ==
    UNION {{[i \in 1..n |-> Chart(i, ts[i])] : ts \in [1..n -> {"counter", "histogram"}]} : n \in 0..MaxCharts}

\* models.ConvertChart for a chart whose Name was read from chart a and whose
\* Unit from chart b.
ConvertChart(a, b) == [Name |-> a.Name, Unit |-> b.Unit, CounterRate |-> Nil, Histogram |-> Nil]

\* in.prom.FetchRateRange(chart.MetricName, ...)
FetchRateRange(metricName) == <<"rate", metricName>>

\* in.prom.FetchHistogramRange(chart.MetricName, ...)
FetchHistogramRange(metricName) == <<"histogram", metricName>>

\* in.mon.GetDashboard returns the dashboard or an error; wg.Add(len(charts)),
\* filledCharts := make([]models.Chart, len(charts)).
DashboardStart ==
    /\ dashboard.at = "start"
    /\ \E err \in BOOLEAN :
        IF err
        THEN dashboard' = [dashboard EXCEPT !.at = "returned", !.err = TRUE]
        ELSE dashboard' = [dashboard EXCEPT !.at = "loop", !.wg = Len(dashboard.charts)]
    /\ UNCHANGED <<graphVars, cancelled, rtAppender, averages, stringSet, jaeger>>

\* One iteration of the loop: c is assigned chart i and `go func(idx, chart)
\* {...}(i, c)` starts goroutine i with copies of i and c.
DashboardLaunch ==
    /\ dashboard.at = "loop"
    /\ dashboard.i <= Len(dashboard.charts)
    /\ dashboard' = [dashboard EXCEPT !.c = dashboard.i,
                                      !.i = dashboard.i + 1,
                                      !.go[dashboard.i] = "convert"]
    /\ UNCHANGED <<graphVars, cancelled, rtAppender, averages, stringSet, jaeger>>

\* Goroutine idx: filledCharts[idx] = models.ConvertChart(c).  The read of c
\* races with the loop's assignments: it yields the chart c holds, or, when the
\* loop is assigning the next chart meanwhile, fields of either.
DashboardConvert ==
    /\ dashboard.at \in {"loop", "wait"}
    /\ \E idx \in 1..Len(dashboard.charts) :
        /\ dashboard.go[idx] = "convert"
        /\ \E next \in {dashboard.c, IF dashboard.c < Len(dashboard.charts) THEN dashboard.c + 1 ELSE dashboard.c} :
            \E a \in {dashboard.c, next}, b \in {dashboard.c, next} :
                dashboard' = [dashboard EXCEPT
                    !.filledCharts[idx] = ConvertChart(dashboard.charts[a], dashboard.charts[b]),
                    !.go[idx] = "fetch"]
    /\ UNCHANGED <<graphVars, cancelled, rtAppender, averages, stringSet, jaeger>>

\* Goroutine idx: the metric of its parameter chart is fetched into
\* filledCharts[idx]; the deferred wg.Done() runs.
DashboardFetch ==
    /\ dashboard.at \in {"loop", "wait"}
    /\ \E idx \in 1..Len(dashboard.charts) :
        /\ dashboard.go[idx] = "fetch"
        /\ LET chart == dashboard.charts[idx]
           IN  dashboard' = [dashboard EXCEPT
                   !.filledCharts[idx] =
                       IF chart.MetricType = "counter"
                       THEN [@ EXCEPT !.CounterRate = FetchRateRange(chart.MetricName)]
                       ELSE [@ EXCEPT !.Histogram = FetchHistogramRange(chart.MetricName)],
                   !.go[idx] = "done",
                   !.wg = @ - 1]
    /\ UNCHANGED <<graphVars, cancelled, rtAppender, averages, stringSet, jaeger>>

\* The loop is over: wg.Wait()
DashboardWait ==
    /\ dashboard.at = "loop"
    /\ dashboard.i > Len(dashboard.charts)
    /\ dashboard' = [dashboard EXCEPT !.at = "wait"]
    /\ UNCHANGED <<graphVars, cancelled, rtAppender, averages, stringSet, jaeger>>

\* wg.Wait() returns when the counter is 0: GetDashboard returns filledCharts.
DashboardReturn ==
    /\ dashboard.at = "wait"
    /\ dashboard.wg = 0
    /\ dashboard' = [dashboard EXCEPT !.at = "returned"]
    /\ UNCHANGED <<graphVars, cancelled, rtAppender, averages, stringSet, jaeger>>

\* The zero value of models.Chart
ZeroChart == [Name |-> Nil, Unit |-> Nil, CounterRate |-> Nil, Histogram |-> Nil]

InitDashboard ==
    /\ NoRequest
    /\ cancelled = FALSE
    /\ rtAppender = "none"
    /\ averages = "none"
    /\ stringSet = "none"
    /\ \E charts \in Dashboards :
        dashboard = [charts |-> charts, at |-> "start", err |-> FALSE, i |-> 1, c |-> 0, wg |-> 0,
                     go |-> [idx \in 1..Len(charts) |-> "idle"],
                     filledCharts |-> [idx \in 1..Len(charts) |-> ZeroChart]]
    /\ jaeger = "none"

NextDashboard ==
    \/ DashboardStart
    \/ DashboardLaunch
    \/ DashboardConvert
    \/ DashboardFetch
    \/ DashboardWait
    \/ DashboardReturn

SpecDashboard == InitDashboard /\ [][NextDashboard]_vars

\* The chart GetDashboard has to return for dashboard chart c.
Filled(c) ==
    [Name |-> c.Name, Unit |-> c.Unit,
     CounterRate |-> IF c.MetricType = "counter" THEN FetchRateRange(c.MetricName) ELSE Nil,
     Histogram |-> IF c.MetricType = "counter" THEN Nil ELSE FetchHistogramRange(c.MetricName)]

\* C29: when GetDashboard returns a dashboard every goroutine has finished,
\* and the returned chart i is the conversion of dashboard chart i with the
\* metric fetched for chart i.
C29_ChartsFilled ==
    dashboard.at = "returned" /\ ~dashboard.err =>
        \A idx \in 1..Len(dashboard.charts) :
            /\ dashboard.go[idx] = "done"
            /\ dashboard.filledCharts[idx] = Filled(dashboard.charts[idx])

\* What does not depend on the read of c: every goroutine has finished at the
\* return, and slot idx carries the metric of chart idx.
DashboardWaitsAndMetrics ==
    dashboard.at = "returned" /\ ~dashboard.err =>
        \A idx \in 1..Len(dashboard.charts) :
            /\ dashboard.go[idx] = "done"
            /\ dashboard.filledCharts[idx].CounterRate = Filled(dashboard.charts[idx]).CounterRate
            /\ dashboard.filledCharts[idx].Histogram = Filled(dashboard.charts[idx]).Histogram

-----------------------------------------------------------------------------
(* getErrorTracesFromJaeger *)

\* Traces in the body of a Jaeger response.
MaxTraces == 2

\* url.Parse: (*URL, error); the *URL is nil (isNil) when the string does not
\* parse.
UrlParse(rawurl) ==
    IF rawurl = "://jaeger" THEN [isNil |-> TRUE, Path |-> "", err |-> "missing protocol scheme"]
    ELSE [isNil |-> FALSE, Path |-> "/jaeger", err |-> Nil]

\* json.Unmarshal of the body into `traces`; len(traces.Data) for a body that
\* decodes.
Unmarshal(body) ==
    IF ~body.decodes THEN [Data |-> 0, err |-> "invalid character"]
    ELSE [Data |-> body.traces, err |-> Nil]

\* The result of getErrorTracesFromJaeger for configuration and Jaeger
\* response j: it returns (errorTraces, err) or panics.
getErrorTracesFromJaeger(j) ==
    IF ~j.Enabled
    THEN [at |-> "returned", errorTraces |-> -1, err |-> "jaeger is not available"]
    ELSE LET parsed == IF ~j.InCluster THEN UrlParse(j.URL) ELSE UrlParse(j.InClusterURL)
         IN  IF parsed.isNil
             THEN [at |-> "panic", errorTraces |-> 0, err |-> Nil]
             ELSE IF parsed.err # Nil
             THEN [at |-> "returned", errorTraces |-> -1, err |-> parsed.err]
             ELSE IF j.reqError
             THEN [at |-> "returned", errorTraces |-> -1, err |-> "request error"]
             ELSE IF j.code # 200
             THEN [at |-> "returned", errorTraces |-> -1, err |-> "error from Jaeger"]
             ELSE IF Unmarshal(j.body).err # Nil
             THEN [at |-> "returned", errorTraces |-> -1, err |-> Unmarshal(j.body).err]
             ELSE [at |-> "returned", errorTraces |-> Unmarshal(j.body).Data, err |-> Nil]

GetErrorTraces ==
    /\ jaeger.at = "call"
    /\ jaeger' = [jaeger EXCEPT !.at = getErrorTracesFromJaeger(jaeger).at,
                                !.errorTraces = getErrorTracesFromJaeger(jaeger).errorTraces,
                                !.err = getErrorTracesFromJaeger(jaeger).err]
    /\ UNCHANGED <<graphVars, cancelled, rtAppender, averages, stringSet, dashboard>>

\* A call under any tracing configuration, with any answer of Jaeger.
InitJaeger ==
    /\ NoRequest
    /\ cancelled = FALSE
    /\ rtAppender = "none"
    /\ averages = "none"
    /\ stringSet = "none"
    /\ dashboard = "none"
    /\ jaeger \in [Enabled : BOOLEAN, InCluster : BOOLEAN,
                   InClusterURL : {"http://jaeger/jaeger", "://jaeger"},
                   URL : {"http://jaeger/jaeger", "://jaeger"},
                   reqError : BOOLEAN, code : {200, 404},
                   body : [decodes : BOOLEAN, traces : 0..MaxTraces],
                   at : {"call"}, errorTraces : {0}, err : {Nil}]

NextJaeger ==
    \/ GetErrorTraces

SpecJaeger == InitJaeger /\ [][NextJaeger]_vars

\* The call fails: tracing is disabled, the Jaeger URL in use does not parse,
\* the request fails, the status is not 200 or the body does not decode.
JaegerFailure ==
    \/ ~jaeger.Enabled
    \/ (IF jaeger.InCluster THEN jaeger.InClusterURL ELSE jaeger.URL) = "://jaeger"
    \/ jaeger.reqError
    \/ jaeger.code # 200
    \/ ~jaeger.body.decodes

\* C30: getErrorTracesFromJaeger does not crash; for every failure it returns
\* -1 with an error, and it returns a count >= 0 only with a nil error.
C30_ErrorTraces ==
    jaeger.at # "call" =>
        /\ jaeger.at = "returned"
        /\ JaegerFailure => jaeger.errorTraces = -1 /\ jaeger.err # Nil
        /\ jaeger.errorTraces >= 0 => jaeger.err = Nil

\* C30 without "does not crash": the calls that return.
JaegerReturns ==
    jaeger.at = "returned" =>
        /\ JaegerFailure => jaeger.errorTraces = -1 /\ jaeger.err # Nil
        /\ jaeger.errorTraces >= 0 => jaeger.err = Nil /\ ~JaegerFailure

====
